---- MODULE Spec2Model ----
(***************************************************************************)
(* Model of koncur's comparison engine (pkg/validator): ValidateFiles, the *)
(* comparer strategies selected by getComparer, and the incident matching  *)
(* of baseValidator and tackleHubValidator.                                *)
(*                                                                         *)
(* Go values are represented as follows.                                   *)
(*   string          a TLA+ string when it is only compared for equality   *)
(*                   (names, ids, tags, messages); a sequence of one-      *)
(*                   character strings when the code looks inside it       *)
(*                   (incident URIs).                                      *)
(*   *T (pointer)    <<>> for nil, <<v>> for a pointer to v.               *)
(*   []T             a sequence.   map[K]V   a function on the key set.    *)
(*   []ValidationError  a bag: the order of the list follows Go's          *)
(*                   unspecified map iteration order, so the model keeps   *)
(*                   what is in the list and how often, not where.         *)
(*   panic           a comparison result with ok = FALSE.                  *)
(* reflect.DeepEqual and maps.Equal are structural equality; the model     *)
(* does not distinguish a nil slice or map from an empty one.              *)
(***************************************************************************)
EXTENDS Integers, Sequences, FiniteSets, Bags, TLC

VARIABLES
    expected,     \* the expected document: a sequence of rulesets
    actual,       \* the actual document: a sequence of rulesets
    edits,        \* number of input-construction steps taken so far
    targetType,   \* the backend kind handed to ValidateFiles
    result,       \* what ValidateFiles did: not called, returned, panicked
    GetTestDir,   \* the directory of the test, stripped from the actual URIs
    testResult,   \* the TestResult of runSingleTest
    testFiles,    \* run command: the test files found, as the run will find them
    outputFormat, \* run command: console, json, yaml or junit
    outputFile,   \* run command: where the formatted results go, "" for stdout
    testIndex,    \* run command: how many test files the loop has gone through
    successCount, \* run command: tests counted as passed
    failCount,    \* run command: tests counted as failed
    skippedCount, \* run command: tests counted as skipped
    allResults,   \* run command: the TestResults reported
    loaded,       \* run command: the test files whose definition was loaded
    summary,      \* run command: the TestSummary, <<>> before the loop has ended
    exitStatus,   \* run command: Running, or the exit status of the process
    hubStep,      \* hub target: where Execute is
    now,          \* hub target: the time, in periods of the ticker
    deadline,     \* hub target: the deadline of pollTaskCompletion
    selectStart,  \* hub target: when the select of the current iteration began
    tickerReady,  \* hub target: a tick is waiting in ticker.C
    ctxDone,      \* hub target: the context handed to Execute is done
    timeout,      \* hub target: test.GetTimeout(), in periods of the ticker
    polls,        \* hub target: how many times the task was queried
    taskState,    \* hub target: what the last Task.Get returned
    pollErr,      \* hub target: what pollTaskCompletion returned
    hubInsights,  \* hub target: the insights of the application on the hub
    gotInsights,  \* hub target: the insights Execute has got, and the error
    execution,    \* hub target: what Execute returned, and the file written
    outputBaseDir,\* clean command: the entries of .koncur/output
    wallClock,    \* clean command: the instant PrepareWorkDir reads
    cleaned       \* clean command: what the last clean did

\* The variables of the comparison of two documents.
docVars == <<expected, actual, edits, targetType, result, GetTestDir, testResult>>

\* The variables of the run command's loop over the test files.
runCmdVars ==
    <<testFiles, outputFormat, outputFile, testIndex, successCount, failCount,
      skippedCount, allResults, loaded, summary, exitStatus>>

\* The variables of the commands other than the comparison.
\* The variables of TackleHubTarget.Execute.
hubVars ==
    <<hubStep, now, deadline, selectStart, tickerReady, ctxDone, timeout, polls, taskState,
      pollErr, hubInsights, gotInsights, execution>>

\* The variables of the clean command.
cleanVars == <<outputBaseDir, wallClock, cleaned>>

commandVars == <<runCmdVars, hubVars, cleanVars>>

vars == <<docVars, commandVars>>

\* The value of exitStatus while the process has not ended.
Running == -1

\* No run command has started.
RunCmdIdle ==
    /\ testFiles = <<>> /\ outputFormat = "console" /\ outputFile = ""
    /\ testIndex = 0 /\ successCount = 0 /\ failCount = 0 /\ skippedCount = 0
    /\ allResults = <<>> /\ loaded = {} /\ summary = <<>> /\ exitStatus = Running

\* Execute of the hub target has not been called.
HubIdle ==
    /\ hubStep = "idle" /\ now = 0 /\ deadline = 0 /\ selectStart = 0
    /\ tickerReady = FALSE /\ ctxDone = FALSE /\ timeout = 0 /\ polls = 0
    /\ taskState = "(none)"
    /\ pollErr = "(polling)" /\ hubInsights = {} /\ gotInsights = <<>>
    /\ execution = <<>>

\* No clean command has run, and .koncur/output is empty.
CleanIdle == outputBaseDir = {} /\ wallClock = 0 /\ cleaned = <<>>

CommandsIdle == RunCmdIdle /\ HubIdle /\ CleanIdle

\* Number of input-construction steps explored before the comparison runs.
MaxEdits == 2

----------------------------------------------------------------------------
(* Pointers *)

Nil == <<>>

Ptr(v) == <<v>>

Deref(p) == p[1]

----------------------------------------------------------------------------
(* Strings the code looks inside: incident URIs and paths *)

URI_Empty == <<>>

URI_MyServlet ==
    <<"f","i","l","e",":","/","/","/","s","r","c","/","M","y","S","e","r","v","l","e","t",".","j","a","v","a">>

URI_SourceApp ==
    <<"f","i","l","e",":","/","/","/","s","o","u","r","c","e","/","A","p","p",".","j","a","v","a">>

URI_OptInputApp ==
    <<"f","i","l","e",":","/","/","/","o","p","t","/","i","n","p","u","t","/","s","o","u","r","c","e","/","A","p","p",".","j","a","v","a">>

URI_SourceMyApp ==
    <<"f","i","l","e",":","/","/","/","s","o","u","r","c","e","/","M","y","A","p","p",".","j","a","v","a">>

URIs == {URI_Empty, URI_MyServlet, URI_SourceApp, URI_OptInputApp, URI_SourceMyApp}

FileScheme == <<"f","i","l","e",":","/","/">>

SourceRoot == <<"/","s","o","u","r","c","e">>

\* s[from..] in Go slice notation, 1-based here.
Drop(s, n) == SubSeq(s, n + 1, Len(s))

HasPrefix(s, p) == Len(p) <= Len(s) /\ SubSeq(s, 1, Len(p)) = p

\* strings.Contains(s, substr)
Contains(s, substr) ==
    \E i \in 0..(Len(s) - Len(substr)) : SubSeq(s, i + 1, i + Len(substr)) = substr

\* uri.URI.Filename for a file:// URI: the path after the scheme and the
\* (empty) host. Every URI of the model is empty or a file:// URI with a
\* clean absolute path.
Filename(u) == IF HasPrefix(u, FileScheme) THEN Drop(u, Len(FileScheme)) ELSE <<>>

\* filepath.Rel(basepath, targpath) for clean paths and an absolute basepath
\* of one element ("/source"): [err, path].
Rel(base, targ) ==
    IF targ = base THEN [err |-> FALSE, path |-> <<".">>]
    ELSE IF Len(targ) = 0 \/ targ[1] # "/" THEN [err |-> TRUE, path |-> <<>>]
    ELSE IF HasPrefix(targ, base \o <<"/">>)
         THEN [err |-> FALSE, path |-> Drop(targ, Len(base) + 1)]
    ELSE IF targ = <<"/">> THEN [err |-> FALSE, path |-> <<".", ".">>]
    ELSE [err |-> FALSE, path |-> <<".", ".">> \o targ]

----------------------------------------------------------------------------
(* ValidationError lists and panics *)

\* A ValidationError: Path is the slash-separated path, one element per
\* segment; Message keeps the format string's text and its arguments.
\* The Expected and Actual fields are not modelled: nothing reads them.
ValidationError(path, text, str, uri, line) ==
    [Path |-> path,
     Message |-> [text |-> text, str |-> str, uri |-> uri, line |-> line]]

\* The outcome of a comparison: the errors it returned, or a panic.
Ok(errs) == [ok |-> TRUE, errs |-> errs]

Panic == [ok |-> FALSE, errs |-> EmptyBag]

NoErrors == Ok(EmptyBag)

One(e) == Ok(SetToBag({e}))

\* errors = append(errors, errs...); a panic in either part unwinds the call.
appendErrors(r1, r2) == IF r1.ok /\ r2.ok THEN Ok(r1.errs (+) r2.errs) ELSE Panic

\* The errors appended by a loop over the keys D, f[k] being the errors of
\* the iteration for k.
RECURSIVE AppendAll(_, _)
AppendAll(f, D) ==
    IF D = {} THEN NoErrors
    ELSE LET k == CHOOSE x \in D : TRUE
         IN  appendErrors(f[k], AppendAll(f, D \ {k}))

\* The errors appended by a loop over a slice.
ForEach(f) == AppendAll(f, DOMAIN f)

\* errs[i].Path = fmt.Sprintf("<prefix>%s", errs[i].Path) for every error.
PrefixPath(prefix, r) ==
    IF ~r.ok THEN Panic
    ELSE LET D == DOMAIN r.errs
             P(e) == [e EXCEPT !.Path = prefix \o @]
         IN  Ok([x \in {P(e) : e \in D} |-> r.errs[CHOOSE e \in D : P(e) = x]])

----------------------------------------------------------------------------
(* validator.go: findExpectedString *)

findExpectedString(exp, act) == \E i \in 1..Len(act) : act[i] = exp

----------------------------------------------------------------------------
(* base_validator.go *)

\* incidentField: the iota constants.
URI == 0

LINE_NUMBER == 1

CODE_SNIP == 2

MESSAGE == 3

NONE == 4

incidentField_String(i) ==
    CASE i = URI -> "uri"
      [] i = LINE_NUMBER -> "line number"
      [] i = CODE_SNIP -> "code snip"
      [] i = MESSAGE -> "message"
      [] OTHER -> ""

baseValidator_normalizeURI(uri) == uri

lineNumberOrZero(ln) == IF ln # Nil THEN Deref(ln) ELSE 0

\* incidentsMatch comparing the line number pointers' targets only when both
\* are set, a nil line number differing from every line number.
baseValidator_incidentsMatch_nilDiffers(exp, act) ==
    IF exp.URI # act.URI THEN [ok |-> FALSE, field |-> URI]
    ELSE IF exp.LineNumber # act.LineNumber
         THEN [ok |-> FALSE, field |-> LINE_NUMBER]
    ELSE IF exp.Message # act.Message THEN [ok |-> FALSE, field |-> MESSAGE]
    ELSE [ok |-> TRUE, field |-> NONE]

\* (bool, incidentField): the first field on which the incidents differ.
baseValidator_incidentsMatch(exp, act) ==
    IF exp.URI # act.URI THEN [ok |-> FALSE, field |-> URI]
    ELSE IF lineNumberOrZero(exp.LineNumber) # lineNumberOrZero(act.LineNumber)
         THEN [ok |-> FALSE, field |-> LINE_NUMBER]
    ELSE IF exp.Message # act.Message THEN [ok |-> FALSE, field |-> MESSAGE]
    ELSE [ok |-> TRUE, field |-> NONE]

\* The loop shared by compareTags, compareUnmatched and compareSkipped.
compareStrings(exp, act, missing, unexpected) ==
    appendErrors(
        ForEach([i \in 1..Len(exp) |->
            IF ~findExpectedString(exp[i], act)
            THEN One(ValidationError(<<exp[i]>>, missing, <<exp[i]>>, <<>>, 0))
            ELSE NoErrors]),
        ForEach([i \in 1..Len(act) |->
            IF ~findExpectedString(act[i], exp)
            THEN One(ValidationError(<<act[i]>>, unexpected, <<act[i]>>, <<>>, 0))
            ELSE NoErrors]))

\* compareTags without its second loop, over the actual tags.
baseValidator_compareTags_expectedOnly(exp, act) ==
    ForEach([i \in 1..Len(exp) |->
        IF ~findExpectedString(exp[i], act)
        THEN One(ValidationError(<<exp[i]>>, "Did not find expected tag", <<exp[i]>>, <<>>, 0))
        ELSE NoErrors])

baseValidator_compareTags(exp, act) ==
    compareStrings(exp, act, "Did not find expected tag", "Unexpected tag found")

baseValidator_compareUnmatched(exp, act) ==
    compareStrings(exp, act, "Did not find expected unmatched rule",
                   "Unexpected unmatched rule found")

baseValidator_compareSkipped(exp, act) ==
    compareStrings(exp, act, "Did not find expected skipped rule",
                   "Unexpected skipped rule found")

baseValidator_compareErrors(exp, act) ==
    appendErrors(
        AppendAll([k \in DOMAIN exp |->
            IF k \notin DOMAIN act \/ exp[k] # act[k]
            THEN One(ValidationError(<<k>>, "Did not find expected error", <<exp[k]>>, <<>>, 0))
            ELSE NoErrors], DOMAIN exp),
        AppendAll([k \in DOMAIN act |->
            IF k \notin DOMAIN exp
            THEN One(ValidationError(<<k>>, "Unexpected error found", <<k>>, <<>>, 0))
            ELSE NoErrors], DOMAIN act))

\* The category and effort checks of compareViolationDetails.
baseValidator_compareCategoryEffort(exp, act) ==
    appendErrors(
        IF act.Category # Nil /\ exp.Category # Nil
              /\ Deref(exp.Category) # Deref(act.Category)
        THEN One(ValidationError(<<>>, "Did not find expected category", <<>>, <<>>, 0))
        ELSE NoErrors,
        IF (exp.Effort # Nil /\ act.Effort # Nil) /\ Deref(exp.Effort) # Deref(act.Effort)
        THEN One(ValidationError(<<>>, "Did not find expected effort", <<>>, <<>>, 0))
        ELSE NoErrors)

\* The links and labels loops of compareViolationDetails.
compareLinksLabels(exp, act) ==
    appendErrors(
        ForEach([n \in 1..Len(exp.Links) |->
            IF ~\E m \in 1..Len(act.Links) :
                   exp.Links[n].Title = act.Links[m].Title
                   /\ exp.Links[n].URL = act.Links[m].URL
            THEN One(ValidationError(<<>>, "Did not find expected link",
                         <<exp.Links[n].Title, exp.Links[n].URL>>, <<>>, 0))
            ELSE NoErrors]),
        ForEach([n \in 1..Len(exp.Labels) |->
            IF ~findExpectedString(exp.Labels[n], act.Labels)
            THEN One(ValidationError(<<>>, "Did not find expected label",
                         <<exp.Labels[n]>>, <<>>, 0))
            ELSE NoErrors]))

\* lastSortedField without the sort: a key of the map as its iteration
\* happens to give it.
lastSortedField_unsorted(faild_fields) == CHOOSE f \in faild_fields : TRUE

\* slices.Sorted(maps.Keys(faild_fields))[len(faild_fields)-1]: the largest
\* key; an index of -1, a panic, when the map is empty.
lastSortedField(faild_fields) ==
    CHOOSE f \in faild_fields : \A g \in faild_fields : g <= f

\* The first incident loop: every expected incident needs a matching actual.
baseValidator_compareExpectedIncidents(exp, act) ==
    ForEach([n \in 1..Len(exp.Incidents) |->
        LET i == exp.Incidents[n]
            found == \E m \in 1..Len(act.Incidents) :
                         baseValidator_incidentsMatch(i, act.Incidents[m]).ok
            faild_fields == {baseValidator_incidentsMatch(i, act.Incidents[m]).field :
                                m \in 1..Len(act.Incidents)}
        IN  IF found THEN NoErrors
            ELSE IF faild_fields = {} THEN Panic
            ELSE One(ValidationError(<<>>, "Did not find expected incident",
                        <<incidentField_String(lastSortedField(faild_fields))>>,
                        baseValidator_normalizeURI(i.URI),
                        lineNumberOrZero(i.LineNumber)))])

\* compareViolationDetails without its second incident loop.
baseValidator_compareActualIncidents_skipped(exp, act) == NoErrors

\* The second incident loop matching by position: the actual incident m is
\* looked for at index m of the expected incidents only.
baseValidator_compareActualIncidents_positional(exp, act) ==
    ForEach([m \in 1..Len(act.Incidents) |->
        LET ai == act.Incidents[m]
            found == m <= Len(exp.Incidents)
                         /\ baseValidator_incidentsMatch(exp.Incidents[m], ai).ok
        IN  IF found THEN NoErrors
            ELSE One(ValidationError(<<>>, "Unexpected incident found", <<>>,
                        baseValidator_normalizeURI(ai.URI),
                        lineNumberOrZero(ai.LineNumber)))])

\* The second incident loop: every actual incident needs a matching expected.
baseValidator_compareActualIncidents(exp, act) ==
    ForEach([m \in 1..Len(act.Incidents) |->
        LET ai == act.Incidents[m]
            found == \E n \in 1..Len(exp.Incidents) :
                         baseValidator_incidentsMatch(exp.Incidents[n], ai).ok
        IN  IF found THEN NoErrors
            ELSE One(ValidationError(<<>>, "Unexpected incident found", <<>>,
                        baseValidator_normalizeURI(ai.URI),
                        lineNumberOrZero(ai.LineNumber)))])

baseValidator_compareViolationDetails(exp, act) ==
    appendErrors(baseValidator_compareCategoryEffort(exp, act),
    appendErrors(compareLinksLabels(exp, act),
    appendErrors(baseValidator_compareExpectedIncidents(exp, act),
           baseValidator_compareActualIncidents(exp, act))))

baseValidator_compareViolations(exp, act) ==
    appendErrors(
        AppendAll([k \in DOMAIN exp |->
            IF k \notin DOMAIN act
            THEN One(ValidationError(<<k>>, "Did not find expected violation", <<k>>, <<>>, 0))
            ELSE PrefixPath(<<k>>, baseValidator_compareViolationDetails(exp[k], act[k]))],
            DOMAIN exp),
        AppendAll([k \in DOMAIN act |->
            IF k \notin DOMAIN exp
            THEN One(ValidationError(<<k>>, "Unexpected violation found", <<k>>, <<>>, 0))
            ELSE NoErrors], DOMAIN act))

----------------------------------------------------------------------------
(* tackle2_hub_validator.go *)

tackleHubValidator_compareUnmatched(exp, act) == NoErrors

tackleHubValidator_compareSkipped(exp, act) == NoErrors

tackleHubValidator_compareTags(exp, act) == NoErrors

\* The URI test of incidentsMatch without the relative-path containment test.
tackleHubValidator_uriMatch_equalOnly(exp, act) ==
    IF exp.URI # URI_Empty /\ act.URI # URI_Empty THEN exp.URI = act.URI ELSE TRUE

\* The URI test of incidentsMatch, made only when both URIs are non-empty.
tackleHubValidator_uriMatch(exp, act) ==
    IF exp.URI # URI_Empty /\ act.URI # URI_Empty /\ exp.URI # act.URI
    THEN LET pathToTest == Rel(SourceRoot, Filename(exp.URI))
         IN  ~pathToTest.err /\ Contains(Filename(act.URI), pathToTest.path)
    ELSE TRUE

tackleHubValidator_incidentsMatch(exp, act) ==
    /\ tackleHubValidator_uriMatch(exp, act)
    /\ exp.Message = act.Message
    /\ ~(exp.LineNumber # Nil /\ act.LineNumber # Nil
         /\ Deref(exp.LineNumber) # Deref(act.LineNumber))

tackleHubValidator_compareViolationDetails(exp, act) ==
    LET skipForInsight == exp.Effort = Nil
    IN  appendErrors(
            IF ~skipForInsight /\ (exp.Effort # Nil /\ act.Effort # Nil)
                  /\ Deref(exp.Effort) # Deref(act.Effort)
            THEN One(ValidationError(<<>>, "Did not find expected effort", <<>>, <<>>, 0))
            ELSE NoErrors,
        appendErrors(
            IF ~skipForInsight /\ act.Category # Nil /\ exp.Category # Nil
                  /\ Deref(exp.Category) # Deref(act.Category)
            THEN One(ValidationError(<<>>, "Did not find expected category", <<>>, <<>>, 0))
            ELSE NoErrors,
        appendErrors(
            IF ~skipForInsight THEN compareLinksLabels(exp, act) ELSE NoErrors,
        appendErrors(
            ForEach([n \in 1..Len(exp.Incidents) |->
                LET i == exp.Incidents[n]
                    found == \E m \in 1..Len(act.Incidents) :
                                 tackleHubValidator_incidentsMatch(i, act.Incidents[m])
                IN  IF ~found /\ ~skipForInsight
                    THEN One(ValidationError(<<>>, "Did not find expected incident",
                                <<>>, i.URI, lineNumberOrZero(i.LineNumber)))
                    ELSE NoErrors]),
            ForEach([m \in 1..Len(act.Incidents) |->
                LET ai == act.Incidents[m]
                    found == \E n \in 1..Len(exp.Incidents) :
                                 tackleHubValidator_incidentsMatch(exp.Incidents[n], ai)
                IN  IF ~found /\ ~skipForInsight
                    THEN One(ValidationError(<<>>, "Unexpected incident found",
                                <<>>, ai.URI, lineNumberOrZero(ai.LineNumber)))
                    ELSE NoErrors])))))

tackleHubValidator_compareViolations(exp, act) ==
    appendErrors(
        AppendAll([k \in DOMAIN exp |->
            IF k \notin DOMAIN act
            THEN One(ValidationError(<<k>>, "Did not find expected violation", <<k>>, <<>>, 0))
            ELSE PrefixPath(<<k>>, tackleHubValidator_compareViolationDetails(exp[k], act[k]))],
            DOMAIN exp),
        AppendAll([k \in DOMAIN act |->
            IF k \notin DOMAIN exp
            THEN One(ValidationError(<<k>>, "Unexpected violation found", <<k>>, <<>>, 0))
            ELSE NoErrors], DOMAIN act))

----------------------------------------------------------------------------
(* The comparer of validator.go *)

\* kantraValidator embeds baseValidator (kantraValidator{baseValidator: *base}
\* in getComparer); its declaration is not among the source files, and the
\* spec's Strict strategy, "default/base", overrides none of the base methods.
kantraValidator == "kantraValidator"

kantraValidator_compareErrors(exp, act) == baseValidator_compareErrors(exp, act)

kantraValidator_compareTags(exp, act) == baseValidator_compareTags(exp, act)

kantraValidator_compareViolations(exp, act) == baseValidator_compareViolations(exp, act)

kantraValidator_compareUnmatched(exp, act) == baseValidator_compareUnmatched(exp, act)

kantraValidator_compareSkipped(exp, act) == baseValidator_compareSkipped(exp, act)

tackleHubValidator == "tackleHubValidator"

\* The nil comparer interface value.
nilComparer == "nil"

getComparer(tt) ==
    CASE tt = "kantra" -> kantraValidator
      [] tt = "tackle-hub" -> tackleHubValidator
      [] tt = "tackle-ui" -> kantraValidator
      [] tt = "kai-rpc" -> kantraValidator
      [] tt = "vscode" -> kantraValidator
      [] OTHER -> nilComparer

\* Method calls on the comparer interface: a call on the nil interface
\* value panics; tackleHubValidator inherits compareErrors from baseValidator.
comparer_compareErrors(c, exp, act) ==
    CASE c = nilComparer -> Panic
      [] c = tackleHubValidator -> baseValidator_compareErrors(exp, act)
      [] OTHER -> kantraValidator_compareErrors(exp, act)

comparer_compareTags(c, exp, act) ==
    CASE c = nilComparer -> Panic
      [] c = tackleHubValidator -> tackleHubValidator_compareTags(exp, act)
      [] OTHER -> kantraValidator_compareTags(exp, act)

comparer_compareViolations(c, exp, act) ==
    CASE c = nilComparer -> Panic
      [] c = tackleHubValidator -> tackleHubValidator_compareViolations(exp, act)
      [] OTHER -> kantraValidator_compareViolations(exp, act)

comparer_compareUnmatched(c, exp, act) ==
    CASE c = nilComparer -> Panic
      [] c = tackleHubValidator -> tackleHubValidator_compareUnmatched(exp, act)
      [] OTHER -> kantraValidator_compareUnmatched(exp, act)

comparer_compareSkipped(c, exp, act) ==
    CASE c = nilComparer -> Panic
      [] c = tackleHubValidator -> tackleHubValidator_compareSkipped(exp, act)
      [] OTHER -> kantraValidator_compareSkipped(exp, act)

----------------------------------------------------------------------------
(* validator.go: ValidateFiles *)

\* The index of the first actual ruleset with the name, 0 if there is none.
firstNamed(act, name) ==
    IF \E j \in 1..Len(act) : act[j].Name = name
    THEN CHOOSE j \in 1..Len(act) :
             act[j].Name = name /\ \A h \in 1..(j - 1) : act[h].Name # name
    ELSE 0

\* compareRuleSet that stops after the Errors of the two rulesets.
compareRuleSet_errorsOnly(c, ers, rs) ==
    IF ers.Errors # rs.Errors
    THEN PrefixPath(<<rs.Name, "error">>, comparer_compareErrors(c, ers.Errors, rs.Errors))
    ELSE NoErrors

\* The body of the inner loop for the actual ruleset rs that has the name of
\* the expected ruleset ers.
compareRuleSet(c, ers, rs) ==
    appendErrors(
        IF ers.Errors # rs.Errors
        THEN PrefixPath(<<rs.Name, "error">>, comparer_compareErrors(c, ers.Errors, rs.Errors))
        ELSE NoErrors,
    appendErrors(
        IF rs.Tags # ers.Tags
        THEN PrefixPath(<<rs.Name, "tags">>, comparer_compareTags(c, ers.Tags, rs.Tags))
        ELSE NoErrors,
    appendErrors(
        IF rs.Insights # ers.Insights
        THEN PrefixPath(<<rs.Name, "insights">>,
                        comparer_compareViolations(c, ers.Insights, rs.Insights))
        ELSE NoErrors,
    appendErrors(
        IF rs.Violations # ers.Violations
        THEN PrefixPath(<<rs.Name, "violations">>,
                        comparer_compareViolations(c, ers.Violations, rs.Violations))
        ELSE NoErrors,
    appendErrors(
        IF rs.Unmatched # ers.Unmatched
        THEN PrefixPath(<<rs.Name, "unmatched">>,
                        comparer_compareUnmatched(c, ers.Unmatched, rs.Unmatched))
        ELSE NoErrors,
        IF rs.Skipped # ers.Skipped
        THEN PrefixPath(<<rs.Name, "skipped">>,
                        comparer_compareSkipped(c, ers.Skipped, rs.Skipped))
        ELSE NoErrors)))))

\* The loop over the expected rulesets.
compareExpectedRuleSets(c, act, exp) ==
    ForEach([i \in 1..Len(exp) |->
        LET j == firstNamed(act, exp[i].Name)
        IN  IF j = 0
            THEN One(ValidationError(<<"ruleset", exp[i].Name>>,
                        "Did not find a matching ruleset", <<>>, <<>>, 0))
            ELSE compareRuleSet(c, exp[i], act[j])])

\* compareUnexpectedRuleSets with the membership test inverted.
compareUnexpectedRuleSets_inverted(act, exp) ==
    LET expectedRulesetNames == {exp[i].Name : i \in 1..Len(exp)}
    IN  ForEach([j \in 1..Len(act) |->
            IF act[j].Name \in expectedRulesetNames
            THEN One(ValidationError(<<"ruleset", act[j].Name>>,
                        "Unexpected ruleset found", <<act[j].Name>>, <<>>, 0))
            ELSE NoErrors])

\* The loop over the actual rulesets that expected does not name.
compareUnexpectedRuleSets(act, exp) ==
    LET expectedRulesetNames == {exp[i].Name : i \in 1..Len(exp)}
    IN  ForEach([j \in 1..Len(act) |->
            IF act[j].Name \notin expectedRulesetNames
            THEN One(ValidationError(<<"ruleset", act[j].Name>>,
                        "Unexpected ruleset found", <<act[j].Name>>, <<>>, 0))
            ELSE NoErrors])

\* passedVerdict with result.Passed left at its initial value.
passedVerdict_initial(errors) == TRUE

\* The verdict: result.Passed = len(errors) == 0.
passedVerdict(errors) == errors = EmptyBag

\* result.Passed and result.Errors for the collected errors; a panic leaves
\* no result.
validationResult(errors) ==
    IF errors.ok
    THEN [status |-> "returned", Passed |-> passedVerdict(errors.errs),
          Errors |-> errors.errs]
    ELSE [status |-> "panic", Passed |-> FALSE, Errors |-> EmptyBag]

\* (*ValidationResult, error), or a panic that unwinds the call.
ValidateFilesResult(tt, act, exp) ==
    validationResult(
        appendErrors(compareExpectedRuleSets(getComparer(tt), act, exp),
                     compareUnexpectedRuleSets(act, exp)))

----------------------------------------------------------------------------
(* The documents compared: konveyor.RuleSet, Violation, Incident *)

EmptyMap == [k \in {} |-> Nil]

RuleSetNames == {"cloud-readiness", "unexpected-ruleset"}

RuleIds == {"session-00001", "session-00002"}

Dimensions == {"Violations", "Insights"}

TagLists ==
    {<<>>, <<"embedded-datasource">>, <<"Java">>,
     <<"embedded-datasource", "Java">>, <<"Java", "Java">>}

ErrorMaps ==
    {EmptyMap, [k \in {"session-00001"} |-> "timeout"],
     [k \in {"session-00001"} |-> "parse error"]}

RuleLists == {<<>>, <<"rule-00010">>}

Categories == {Nil, Ptr("mandatory"), Ptr("optional")}

Efforts == {Nil, Ptr(1), Ptr(3)}

LabelLists ==
    {<<>>, <<"konveyor.io/target=cloud-readiness">>,
     <<"konveyor.io/target=cloud-readiness", "konveyor.io/source=java">>}

DocsLink == [Title |-> "docs", URL |-> "https://example.com/docs"]

MirrorLink == [Title |-> "docs", URL |-> "https://example.com/mirror"]

LinkLists == {<<>>, <<DocsLink>>, <<DocsLink, MirrorLink>>}

LineNumbers == {Nil, Ptr(0), Ptr(42), Ptr(43)}

Messages == {"HTTP session used", "session not serializable"}

VariableMaps == {{}, {<<"name", "HttpSession">>}, {<<"name", "Session">>}}

\* The incident of the spec's first scenario.
ServletIncident ==
    [URI |-> URI_MyServlet, Message |-> "HTTP session used", LineNumber |-> Ptr(42),
     CodeSnip |-> "", Variables |-> {}]

SessionViolation ==
    [Category |-> Ptr("mandatory"), Effort |-> Ptr(3),
     Labels |-> <<"konveyor.io/target=cloud-readiness">>, Links |-> <<DocsLink>>,
     Incidents |-> <<ServletIncident>>]

\* An insight: a violation without effort.
SessionInsight ==
    [Category |-> Nil, Effort |-> Nil, Labels |-> <<>>, Links |-> <<>>,
     Incidents |-> <<ServletIncident>>]

ViolationTemplate(dim) == IF dim = "Insights" THEN SessionInsight ELSE SessionViolation

EmptyRuleSet(name) ==
    [Name |-> name, Tags |-> <<>>, Violations |-> EmptyMap, Insights |-> EmptyMap,
     Errors |-> EmptyMap, Unmatched |-> <<>>, Skipped |-> <<>>]

CloudReadiness(name) ==
    [EmptyRuleSet(name) EXCEPT
        !.Tags = <<"embedded-datasource">>,
        !.Violations = [k \in {"session-00001"} |-> SessionViolation]]

RuleSetTemplates ==
    {EmptyRuleSet(n) : n \in RuleSetNames} \cup {CloudReadiness("unexpected-ruleset")}

\* The backend kinds: the five getComparer knows, the empty kind of the
\* Validate wrapper, and one it does not know.
TargetTypes == {"kantra", "tackle-hub", "tackle-ui", "kai-rpc", "vscode", "", "other"}

NotCalled == [status |-> "none", Passed |-> FALSE, Errors |-> EmptyBag]

\* The TestResult before runSingleTest has set its status.
NotRun ==
    [Status |-> "unknown", ErrorMessage |-> "", ValidationErrors |-> EmptyBag,
     RuleSetsCount |-> 0, FilteredFrom |-> 0]

\* URIs as the backends write them into the actual output.
URI_TestDirServlet ==
    <<"f","i","l","e",":","/","/","/","t","/","s","r","c","/","M","y","S","e","r","v","l","e","t",".","j","a","v","a">>

URI_SharedOptInputApp ==
    <<"f","i","l","e",":","/","/","/","s","h","a","r","e","d","/","o","p","t","/","i","n","p","u","t","/","s","o","u","r","c","e","/","A","p","p",".","j","a","v","a">>

URI_JavaBinApp ==
    <<"f","i","l","e",":","/","/","/","t","m","p","/","j","a","v","a","-","b","i","n","-","1","2","/","A","p","p",".","j","a","v","a">>

URI_AddonJar ==
    <<"f","i","l","e",":","/","/","/","a","d","d","o","n","/",".","m","2","/","r","e","p","o","s","i","t","o","r","y","/","a",".","j","a","r">>

RawURIs ==
    {URI_Empty, URI_MyServlet, URI_OptInputApp, URI_TestDirServlet,
     URI_SharedOptInputApp, URI_JavaBinApp, URI_AddonJar}

\* The directory of the test: none, a directory, and a string that covers a
\* whole URI of the output, the one case in which the rewriting of
\* normalizeIncident leaves nothing.
TestDir_T == <<"/","t">>

TestDirs == {<<>>, TestDir_T, URI_MyServlet}

----------------------------------------------------------------------------
(* parser.go: FilterRuleSets, NormalizeRuleSets *)

\* Keep rulesets that have violations, insights, or tags.
FilterRuleSets(rulesets) ==
    SelectSeq(rulesets, LAMBDA rs :
        Cardinality(DOMAIN rs.Violations) > 0 \/ Cardinality(DOMAIN rs.Insights) > 0
            \/ Len(rs.Tags) > 0)

\* strings.ReplaceAll(s, old, new) for a non-empty old: the non-overlapping
\* occurrences of old, found from the left, become new.
RECURSIVE ReplaceAll(_, _, _)
ReplaceAll(s, old, new) ==
    IF ~Contains(s, old) THEN s
    ELSE IF HasPrefix(s, old) THEN new \o ReplaceAll(Drop(s, Len(old)), old, new)
    ELSE <<s[1]>> \o ReplaceAll(Drop(s, 1), old, new)

M2Repository == 
    <<"/","r","o","o","t","/",".","m","2","/","r","e","p","o","s","i","t","o","r","y">>

M2RepositorySlash == 
    <<"/","r","o","o","t","/",".","m","2","/","r","e","p","o","s","i","t","o","r","y","/">>

M2 == 
    <<"/","m","2","/">>

CacheM2 == 
    <<"/","c","a","c","h","e","/","m","2","/">>

AddonM2Repository == 
    <<"/","a","d","d","o","n","/",".","m","2","/","r","e","p","o","s","i","t","o","r","y">>

AddonM2RepositorySlash == 
    <<"/","a","d","d","o","n","/",".","m","2","/","r","e","p","o","s","i","t","o","r","y","/">>

SharedSourceSlash == 
    <<"/","s","h","a","r","e","d","/","s","o","u","r","c","e","/">>

SharedSource == 
    <<"/","s","h","a","r","e","d","/","s","o","u","r","c","e">>

OptInputSource == 
    <<"/","o","p","t","/","i","n","p","u","t","/","s","o","u","r","c","e">>

FileSource == 
    <<"f","i","l","e",":","/","/","/","s","o","u","r","c","e","/">>

JavaBinDash == 
    <<"/","j","a","v","a","-","b","i","n","-">>

Digits == {"0", "1", "2", "3", "4", "5", "6", "7", "8", "9"}

\* The end of the match of /java-bin-\d+/ that starts at position i of s,
\* 0 if none starts there.
javaBinMatchEnd(s, i) ==
    IF SubSeq(s, i, i + Len(JavaBinDash) - 1) # JavaBinDash THEN 0
    ELSE LET ends == {e \in (i + Len(JavaBinDash) + 1)..Len(s) :
                         /\ s[e] = "/"
                         /\ \A k \in (i + Len(JavaBinDash))..(e - 1) : s[k] \in Digits}
         IN  IF ends = {} THEN 0 ELSE CHOOSE e \in ends : TRUE

\* regexp.MustCompile(`.*/java-bin-\d+/`).ReplaceAllString(s, "file:///source/")
\* for a string of one line: the greedy .* reaches the last /java-bin-N/, and
\* what precedes the end of that match becomes file:///source/.
javaBinPattern_ReplaceAllString(s) ==
    LET starts == {i \in 1..(Len(s) - Len(JavaBinDash)) : javaBinMatchEnd(s, i) # 0}
    IN  IF starts = {} THEN s
        ELSE LET last == CHOOSE i \in starts : \A o \in starts : o <= i
             IN  FileSource \o Drop(s, javaBinMatchEnd(s, last))

\* if testDir != "" { fileName = strings.ReplaceAll(fileName, testDir, "") }
stripTestDir(fileName, testDir) ==
    IF testDir # <<>> THEN ReplaceAll(fileName, testDir, <<>>) ELSE fileName

\* if strings.Contains(fileName, probe) { fileName = strings.ReplaceAll(fileName, old, new) }
rewriteIfContains(fileName, probe, old, new) ==
    IF Contains(fileName, probe) THEN ReplaceAll(fileName, old, new) ELSE fileName

\* The rewriting of normalizeIncident, rule after rule: the test directory,
\* the three Maven repository mounts, the two source mounts of tackle-hub,
\* the java-bin directories.
normalizeFileName(fileName, testDir) ==
    javaBinPattern_ReplaceAllString(
        rewriteIfContains(
            rewriteIfContains(
                rewriteIfContains(
                    rewriteIfContains(
                        rewriteIfContains(stripTestDir(fileName, testDir),
                            M2Repository, M2RepositorySlash, M2),
                        CacheM2, CacheM2, M2),
                    AddonM2Repository, AddonM2RepositorySlash, M2),
                SharedSourceSlash, SharedSource, SourceRoot),
            OptInputSource, OptInputSource, SourceRoot))

\* An error value: the bag of the messages joined by errors.Join, each
\* message identified by the URI it names; nil is the empty bag.
NilError == EmptyBag

\* normalizeIncident failing on the empty URI.
normalizeIncident_emptyFails(incident, testDir) ==
    IF incident.URI = <<>>
    THEN [incident |-> incident, err |-> SetToBag({incident.URI})]
    ELSE IF ~Contains(incident.URI, FileScheme)
    THEN [incident |-> incident, err |-> NilError]
    ELSE LET fileName == normalizeFileName(incident.URI, testDir)
         IN  IF fileName = <<>>
             THEN [incident |-> incident, err |-> SetToBag({incident.URI})]
             ELSE [incident |-> [incident EXCEPT !.URI = fileName], err |-> NilError]

\* (konveyor.Incident, error)
normalizeIncident(incident, testDir) ==
    IF incident.URI = <<>> \/ ~Contains(incident.URI, FileScheme)
    THEN [incident |-> incident, err |-> NilError]
    ELSE LET fileName == normalizeFileName(incident.URI, testDir)
         IN  IF fileName = <<>>
             THEN [incident |-> incident, err |-> SetToBag({incident.URI})]
             ELSE [incident |-> [incident EXCEPT !.URI = fileName], err |-> NilError]

\* errors.Join over the values f[k], k in D.
RECURSIVE JoinAll(_, _)
JoinAll(f, D) ==
    IF D = {} THEN NilError
    ELSE LET k == CHOOSE x \in D : TRUE
         IN  f[k] (+) JoinAll(f, D \ {k})

\* The map on D with the values f[k], built entry by entry.
RECURSIVE MapOf(_, _)
MapOf(f, D) ==
    IF D = {} THEN EmptyMap
    ELSE LET k == CHOOSE x \in D : TRUE
         IN  (k :> f[k]) @@ MapOf(f, D \ {k})

\* (konveyor.Violation, error): every incident is kept, normalized or not.
normalizeViolation(violation, testDir) ==
    LET N == Len(violation.Incidents)
        incs == SubSeq([n \in 1..N |-> normalizeIncident(violation.Incidents[n], testDir)],
                       1, N)
    IN  [violation |-> [violation EXCEPT
                           !.Incidents = SubSeq([n \in 1..N |-> incs[n].incident], 1, N)],
         err |-> JoinAll([n \in 1..N |-> incs[n].err], 1..N)]

\* normalizeViolation for every entry of a violations or insights map.
normalizeViolations(m, testDir) ==
    MapOf([k \in DOMAIN m |-> normalizeViolation(m[k], testDir)], DOMAIN m)

\* The entries whose normalization succeeded.
normalizedEntries(nm) ==
    MapOf([k \in DOMAIN nm |-> nm[k].violation], {k \in DOMAIN nm : nm[k].err = NilError})

\* One iteration of the loop of NormalizeRuleSets: a violation whose
\* normalization fails is left out and its error joined; an insight whose
\* normalization fails is left out without its error.
normalizeRuleSet(rs, testDir) ==
    LET violations == normalizeViolations(rs.Violations, testDir)
        insights == normalizeViolations(rs.Insights, testDir)
    IN  [ruleset |-> [rs EXCEPT !.Violations = normalizedEntries(violations),
                                !.Insights = normalizedEntries(insights)],
         err |-> JoinAll([k \in DOMAIN violations |-> violations[k].err],
                         DOMAIN violations)]

\* ([]konveyor.RuleSet, error)
NormalizeRuleSets(rulesets, testDir) ==
    LET N == Len(rulesets)
        normalized == SubSeq([i \in 1..N |-> normalizeRuleSet(rulesets[i], testDir)], 1, N)
    IN  [rulesets |-> SubSeq([i \in 1..N |-> normalized[i].ruleset], 1, N),
         err |-> JoinAll([i \in 1..N |-> normalized[i].err], 1..N)]

----------------------------------------------------------------------------
(* The state machine: two documents are written, then compared once *)

Sides == {"expected", "actual"}

Doc(side) == IF side = "expected" THEN expected ELSE actual

\* One step of writing a document: side's document becomes d.
Write(side, d) ==
    /\ result.status = "none" /\ testResult = NotRun
    /\ edits < MaxEdits
    /\ d # Doc(side)
    /\ edits' = edits + 1
    /\ IF side = "expected"
       THEN expected' = d /\ UNCHANGED actual
       ELSE actual' = d /\ UNCHANGED expected
    /\ UNCHANGED <<targetType, result, GetTestDir, testResult, commandVars>>

RemoveAt(s, i) == SubSeq(s, 1, i - 1) \o SubSeq(s, i + 1, Len(s))

RemoveKey(m, k) == [x \in DOMAIN m \ {k} |-> m[x]]

PutKey(m, k, v) == [x \in DOMAIN m \cup {k} |-> IF x = k THEN v ELSE m[x]]

Init ==
    /\ expected = <<CloudReadiness("cloud-readiness")>>
    /\ actual = <<CloudReadiness("cloud-readiness")>>
    /\ edits = 0
    /\ targetType = "(not called)"
    /\ result = NotCalled
    /\ GetTestDir = <<>>
    /\ testResult = NotRun
    /\ CommandsIdle

AddRuleSet(side) ==
    \E rs \in RuleSetTemplates : Write(side, Doc(side) \o <<rs>>)

RemoveRuleSet(side) ==
    \E i \in 1..Len(Doc(side)) : Write(side, RemoveAt(Doc(side), i))

SetTags(side) ==
    \E i \in 1..Len(Doc(side)), t \in TagLists :
        Write(side, [Doc(side) EXCEPT ![i].Tags = t])

SetErrors(side) ==
    \E i \in 1..Len(Doc(side)), e \in ErrorMaps :
        Write(side, [Doc(side) EXCEPT ![i].Errors = e])

SetUnmatched(side) ==
    \E i \in 1..Len(Doc(side)), u \in RuleLists :
        Write(side, [Doc(side) EXCEPT ![i].Unmatched = u])

SetSkipped(side) ==
    \E i \in 1..Len(Doc(side)), u \in RuleLists :
        Write(side, [Doc(side) EXCEPT ![i].Skipped = u])

PutViolation(side) ==
    \E i \in 1..Len(Doc(side)), dim \in Dimensions, id \in RuleIds :
        Write(side, [Doc(side) EXCEPT ![i][dim] = PutKey(@, id, ViolationTemplate(dim))])

RemoveViolation(side) ==
    \E i \in 1..Len(Doc(side)), dim \in Dimensions :
        \E id \in DOMAIN Doc(side)[i][dim] :
            Write(side, [Doc(side) EXCEPT ![i][dim] = RemoveKey(@, id)])

\* One field of one violation or insight is rewritten.
SetViolationField(side) ==
    \E i \in 1..Len(Doc(side)), dim \in Dimensions :
        \E id \in DOMAIN Doc(side)[i][dim] :
            \/ \E c \in Categories :
                   Write(side, [Doc(side) EXCEPT ![i][dim][id].Category = c])
            \/ \E e \in Efforts :
                   Write(side, [Doc(side) EXCEPT ![i][dim][id].Effort = e])
            \/ \E l \in LabelLists :
                   Write(side, [Doc(side) EXCEPT ![i][dim][id].Labels = l])
            \/ \E l \in LinkLists :
                   Write(side, [Doc(side) EXCEPT ![i][dim][id].Links = l])

AddIncident(side) ==
    \E i \in 1..Len(Doc(side)), dim \in Dimensions :
        \E id \in DOMAIN Doc(side)[i][dim] :
            Write(side, [Doc(side) EXCEPT ![i][dim][id].Incidents = @ \o <<ServletIncident>>])

RemoveIncident(side) ==
    \E i \in 1..Len(Doc(side)), dim \in Dimensions :
        \E id \in DOMAIN Doc(side)[i][dim] :
            \E n \in 1..Len(Doc(side)[i][dim][id].Incidents) :
                Write(side, [Doc(side) EXCEPT ![i][dim][id].Incidents = RemoveAt(@, n)])

\* One field of one incident is rewritten.
SetIncidentField(side) ==
    \E i \in 1..Len(Doc(side)), dim \in Dimensions :
        \E id \in DOMAIN Doc(side)[i][dim] :
            \E n \in 1..Len(Doc(side)[i][dim][id].Incidents) :
                \/ \E u \in URIs :
                       Write(side, [Doc(side) EXCEPT ![i][dim][id].Incidents[n].URI = u])
                \/ \E l \in LineNumbers :
                       Write(side, [Doc(side) EXCEPT ![i][dim][id].Incidents[n].LineNumber = l])
                \/ \E m \in Messages :
                       Write(side, [Doc(side) EXCEPT ![i][dim][id].Incidents[n].Message = m])
                \/ \E v \in VariableMaps :
                       Write(side, [Doc(side) EXCEPT ![i][dim][id].Incidents[n].Variables = v])

\* ValidateFiles(testDir, targetType, actual, expected)
ValidateFiles ==
    /\ result.status = "none"
    /\ \E tt \in TargetTypes :
           /\ targetType' = tt
           /\ result' = ValidateFilesResult(tt, actual, expected)
    /\ UNCHANGED <<expected, actual, edits, GetTestDir, testResult, commandVars>>

\* Validate(actual, expected): ValidateFiles("", "", actual, expected)
Validate ==
    /\ result.status = "none"
    /\ targetType' = ""
    /\ result' = ValidateFilesResult("", actual, expected)
    /\ UNCHANGED <<expected, actual, edits, GetTestDir, testResult, commandVars>>

\* The URI of one incident of the actual output is rewritten.
SetIncidentURI ==
    \E i \in 1..Len(actual), dim \in Dimensions :
        \E id \in DOMAIN actual[i][dim] :
            \E n \in 1..Len(actual[i][dim][id].Incidents), u \in RawURIs :
                Write("actual", [actual EXCEPT ![i][dim][id].Incidents[n].URI = u])

\* runSingleTest from the parsed output on: filter, normalize, validate.
\* A panic of ValidateFiles unwinds the call and no TestResult is returned.
runSingleTest ==
    /\ result.status = "none" /\ testResult = NotRun
    /\ LET filteredActual == FilterRuleSets(actual)
           normalized == NormalizeRuleSets(filteredActual, GetTestDir)
           counted == [NotRun EXCEPT !.RuleSetsCount = Len(filteredActual),
                                     !.FilteredFrom = Len(actual)]
       IN  IF normalized.err # NilError
           THEN /\ testResult' = [counted EXCEPT
                                     !.Status = "failed",
                                     !.ErrorMessage = "failed to normalize paths"]
                /\ UNCHANGED <<targetType, result>>
           ELSE \E tgtType \in TargetTypes :
                    /\ targetType' = tgtType
                    /\ result' = ValidateFilesResult(tgtType, normalized.rulesets, expected)
                    /\ testResult' =
                           IF result'.status = "panic" THEN counted
                           ELSE IF result'.Passed
                           THEN [counted EXCEPT !.Status = "passed"]
                           ELSE [counted EXCEPT !.Status = "failed",
                                                !.ValidationErrors = result'.Errors]
    /\ UNCHANGED <<expected, actual, edits, GetTestDir, commandVars>>

Next ==
    \/ \E side \in Sides :
           \/ AddRuleSet(side)
           \/ RemoveRuleSet(side)
           \/ SetTags(side)
           \/ SetErrors(side)
           \/ SetUnmatched(side)
           \/ SetSkipped(side)
           \/ PutViolation(side)
           \/ RemoveViolation(side)
           \/ SetViolationField(side)
           \/ AddIncident(side)
           \/ RemoveIncident(side)
           \/ SetIncidentField(side)
    \/ ValidateFiles
    \/ Validate

Spec == Init /\ [][Next]_vars

\* The run pipeline: the test's expected document and directory, the output
\* of the backend, then runSingleTest.
RunInit ==
    /\ expected = <<CloudReadiness("cloud-readiness")>>
    /\ actual = <<CloudReadiness("cloud-readiness")>>
    /\ edits = 0
    /\ targetType = "(not called)"
    /\ result = NotCalled
    /\ GetTestDir \in TestDirs
    /\ testResult = NotRun
    /\ CommandsIdle

RunNext ==
    \/ \E side \in Sides :
           \/ AddRuleSet(side)
           \/ RemoveRuleSet(side)
           \/ SetTags(side)
           \/ SetErrors(side)
           \/ PutViolation(side)
           \/ RemoveViolation(side)
           \/ AddIncident(side)
    \/ SetIncidentURI
    \/ runSingleTest

RunSpec == RunInit /\ [][RunNext]_vars

\* generate: the parsed output of the backend is filtered and saved as the
\* expected output of the test, which the next run loads.
generate ==
    /\ result.status = "none" /\ testResult = NotRun
    /\ expected # FilterRuleSets(actual)
    /\ expected' = FilterRuleSets(actual)
    /\ UNCHANGED <<actual, edits, targetType, result, GetTestDir, testResult, commandVars>>

\* The round trip: a test without expected output, the output of the
\* backend, generate, then runSingleTest.
GenerateInit ==
    /\ expected = <<>>
    /\ actual = <<CloudReadiness("cloud-readiness")>>
    /\ edits = 0
    /\ targetType = "(not called)"
    /\ result = NotCalled
    /\ GetTestDir \in TestDirs
    /\ testResult = NotRun
    /\ CommandsIdle

GenerateNext ==
    \/ \E side \in {"actual"} :
           \/ AddRuleSet(side)
           \/ RemoveRuleSet(side)
           \/ SetTags(side)
           \/ PutViolation(side)
           \/ RemoveViolation(side)
           \/ AddIncident(side)
           \/ RemoveIncident(side)
    \/ SetIncidentURI
    \/ generate
    \/ runSingleTest

GenerateSpec == GenerateInit /\ [][GenerateNext]_vars

\* The comparison of incident lists: the two documents are the scenario
\* document with every choice of expected and actual incidents, compared once.
MaxIncidents == 2

IncidentSamples ==
    {ServletIncident,
     [ServletIncident EXCEPT !.LineNumber = Ptr(43)],
     [ServletIncident EXCEPT !.Message = "session not serializable"],
     [ServletIncident EXCEPT !.URI = URI_SourceApp]}

IncidentLists == UNION {[1..n -> IncidentSamples] : n \in 0..MaxIncidents}

WithIncidents(incidents) ==
    <<[CloudReadiness("cloud-readiness") EXCEPT
          !.Violations["session-00001"].Incidents = incidents]>>

IncidentInit ==
    /\ \E e \in IncidentLists : expected = WithIncidents(e)
    /\ \E a \in IncidentLists : actual = WithIncidents(a)
    /\ edits = MaxEdits
    /\ targetType = "(not called)"
    /\ result = NotCalled
    /\ GetTestDir = <<>>
    /\ testResult = NotRun
    /\ CommandsIdle

IncidentNext == ValidateFiles \/ Validate

IncidentSpec == IncidentInit /\ [][IncidentNext]_vars

----------------------------------------------------------------------------
(* cli/run.go: the run command; targets/executor.go, targets/kantra.go *)

\* No comparison of documents is under way.
DocsIdle ==
    /\ expected = <<>> /\ actual = <<>> /\ edits = 0
    /\ targetType = "(not called)" /\ result = NotCalled
    /\ GetTestDir = <<>> /\ testResult = NotRun

MaxTests == 2

\* A test file as the run finds it: whether it carries the SKIPPED marker,
\* whether its definition loads and is valid, whether the analyzer process
\* starts and with which code it exits, the exit code the definition
\* expects, and what becomes of the output the analyzer writes.
PassingTest ==
    [marked |-> FALSE, loads |-> TRUE, started |-> TRUE, processExitCode |-> 0,
     expectExitCode |-> 0, output |-> "matches"]

TestFileSamples ==
    {PassingTest,
     [PassingTest EXCEPT !.marked = TRUE],
     [PassingTest EXCEPT !.loads = FALSE],
     [PassingTest EXCEPT !.started = FALSE],
     [PassingTest EXCEPT !.processExitCode = 1, !.expectExitCode = 1],
     [PassingTest EXCEPT !.processExitCode = 1],
     [PassingTest EXCEPT !.expectExitCode = 1],
     [PassingTest EXCEPT !.output = "differs"],
     [PassingTest EXCEPT !.output = "unparsable"],
     [PassingTest EXCEPT !.output = "panics"]}

OutputFormats == {"console", "json", "yaml", "junit"}

\* isTestSkipped: the SKIPPED marker in the first bytes of the file.
isTestSkipped(testFile) == testFile.marked

\* ExecuteCommand: (*ExecutionResult, error), the error as its message.
ExecuteCommand(testFile) ==
    IF ~testFile.started
    THEN [result |-> Nil, err |-> "failed to execute command"]
    ELSE IF testFile.processExitCode # 0
    THEN [result |-> Nil, err |-> "command failed with exit code"]
    ELSE [result |-> Ptr([ExitCode |-> testFile.processExitCode]), err |-> ""]

\* KantraTarget.Execute, from the call of ExecuteCommand on.
KantraTarget_Execute(testFile) == ExecuteCommand(testFile)

\* The TestResult runSingleTest starts from, for the test file of index k.
newTestResult(k) ==
    [Name |-> k, Status |-> "unknown", ErrorMessage |-> "", ExitCode |-> 0,
     ExpectedExitCode |-> 0]

\* runSingleTest for one test file: (*TestResult, error), err telling whether
\* the error is non-nil, or a panic of ValidateFiles that leaves no result.
\* What filtering, normalization and comparison do with the output is in
\* the action runSingleTest; here it is the outcome the test file carries.
runSingleTestOf(k, testFile) ==
    LET fresh == newTestResult(k)
        executed == KantraTarget_Execute(testFile)
    IN  IF ~testFile.loads
        THEN [testResult |-> [fresh EXCEPT !.Status = "failed",
                                           !.ErrorMessage = "failed to load test"],
              err |-> TRUE, panic |-> FALSE]
        ELSE IF executed.err # ""
        THEN [testResult |-> [fresh EXCEPT !.Status = "failed",
                                           !.ErrorMessage = "execution failed"],
              err |-> TRUE, panic |-> FALSE]
        ELSE LET coded == [fresh EXCEPT
                              !.ExitCode = Deref(executed.result).ExitCode,
                              !.ExpectedExitCode = testFile.expectExitCode]
             IN  IF Deref(executed.result).ExitCode # testFile.expectExitCode
                 THEN [testResult |-> [coded EXCEPT !.Status = "failed",
                                                    !.ErrorMessage = "Exit code mismatch"],
                       err |-> FALSE, panic |-> FALSE]
                 ELSE IF testFile.output = "unparsable"
                 THEN [testResult |-> [coded EXCEPT !.Status = "failed",
                                              !.ErrorMessage = "failed to parse output"],
                       err |-> TRUE, panic |-> FALSE]
                 ELSE IF testFile.output = "panics"
                 THEN [testResult |-> coded, err |-> FALSE, panic |-> TRUE]
                 ELSE IF testFile.output = "matches"
                 THEN [testResult |-> [coded EXCEPT !.Status = "passed"],
                       err |-> FALSE, panic |-> FALSE]
                 ELSE [testResult |-> [coded EXCEPT !.Status = "failed"],
                       err |-> FALSE, panic |-> FALSE]

\* The loop's bookkeeping with the append of a failed test's result left out.
reportResult_unlessError(results, run) ==
    IF run.err THEN results ELSE Append(results, run.testResult)

\* allResults = append(allResults, *testResult), on both paths of the loop:
\* runSingleTest never returns a nil *TestResult.
reportResult(results, run) == Append(results, run.testResult)

\* One iteration of the loop over testFiles.
RunTest ==
    /\ exitStatus = Running /\ summary = <<>>
    /\ testIndex < Len(testFiles)
    /\ testIndex' = testIndex + 1
    /\ LET testFile == testFiles[testIndex + 1]
           run == runSingleTestOf(testIndex + 1, testFile)
       IN  IF isTestSkipped(testFile)
           THEN /\ allResults' = Append(allResults,
                                     [newTestResult(testIndex + 1) EXCEPT !.Status = "skipped"])
                /\ skippedCount' = skippedCount + 1
                /\ UNCHANGED <<successCount, failCount, loaded, exitStatus>>
           ELSE /\ loaded' = loaded \cup {testIndex + 1}
                /\ IF run.panic
                   THEN /\ exitStatus' = 2
                        /\ UNCHANGED <<successCount, failCount, skippedCount, allResults>>
                   ELSE /\ allResults' = reportResult(allResults, run)
                        /\ IF ~run.err /\ run.testResult.Status = "passed"
                           THEN successCount' = successCount + 1 /\ UNCHANGED failCount
                           ELSE failCount' = failCount + 1 /\ UNCHANGED successCount
                        /\ UNCHANGED <<skippedCount, exitStatus>>
    /\ UNCHANGED <<testFiles, outputFormat, outputFile, summary, docVars,
                   hubVars, cleanVars>>

\* if summary.Failed > 0 { os.Exit(1) }; return nil
exitOnFailure(failed) == IF failed > 0 THEN 1 ELSE 0

\* The exit status the end of RunE leads to once the results are out. The
\* console branch returns nil when a test failed, with several test files
\* after the summary and with one without it; a return of nil ends the
\* process with status 0.
runExitStatus(format, total, failed) ==
    IF format # "console" THEN exitOnFailure(failed)
    ELSE IF total > 1
         THEN IF failed > 0 THEN 0 ELSE exitOnFailure(failed)
         ELSE IF failed > 0 THEN 0 ELSE exitOnFailure(failed)

\* The end of RunE: the summary, its output, the exit status. Writing the
\* formatted results to outputFile can fail, and the process then ends with
\* the error.
Summarize ==
    /\ exitStatus = Running /\ summary = <<>>
    /\ testIndex = Len(testFiles)
    /\ summary' = Ptr([Total |-> Len(testFiles), Passed |-> successCount,
                       Failed |-> failCount, Skipped |-> skippedCount,
                       Tests |-> allResults])
    /\ \E written \in BOOLEAN :
           /\ ~written => (outputFormat # "console" /\ outputFile # "")
           /\ exitStatus' = IF ~written THEN 1
                            ELSE runExitStatus(outputFormat, Len(testFiles), failCount)
    /\ UNCHANGED <<testFiles, outputFormat, outputFile, testIndex, successCount,
                   failCount, skippedCount, allResults, loaded, docVars,
                   hubVars, cleanVars>>

RunCmdInit ==
    /\ DocsIdle /\ HubIdle /\ CleanIdle
    /\ testFiles \in UNION {[1..n -> TestFileSamples] : n \in 1..MaxTests}
    /\ outputFormat \in OutputFormats
    /\ outputFile \in {"", "results.out"}
    /\ outputFormat = "console" => outputFile = ""
    /\ testIndex = 0 /\ successCount = 0 /\ failCount = 0 /\ skippedCount = 0
    /\ allResults = <<>> /\ loaded = {} /\ summary = <<>> /\ exitStatus = Running

RunCmdNext == RunTest \/ Summarize

RunCmdSpec == RunCmdInit /\ [][RunCmdNext]_vars

----------------------------------------------------------------------------
(* Vocabulary of the properties *)

Called == result.status # "none"

Returned == result.status = "returned"

\* The comparer selected for the call is the strict one (kantra, tackle-ui,
\* kai-rpc, vscode), the relaxed one of tackle-hub, or none.
Strict == getComparer(targetType) = kantraValidator

Hub == getComparer(targetType) = tackleHubValidator

Recognised == getComparer(targetType) # nilComparer

Names(doc) == {doc[i].Name : i \in 1..Len(doc)}

UniqueNames(doc) == \A i, j \in 1..Len(doc) : doc[i].Name = doc[j].Name => i = j

NumNamed(doc, n) == Cardinality({i \in 1..Len(doc) : doc[i].Name = n})

\* How many discrepancies of the returned list are in the set S.
Copies(S) == IF S = {} THEN 0 ELSE BagCardinality([e \in S |-> result.Errors[e]])

ErrorsAt(path) == {e \in DOMAIN result.Errors : e.Path = path}

ErrorsUnder(prefix) == {e \in DOMAIN result.Errors : HasPrefix(e.Path, prefix)}

\* Every violation and insight of the document has an incident.
AllHaveIncidents(doc) ==
    \A i \in 1..Len(doc), dim \in Dimensions :
        \A id \in DOMAIN doc[i][dim] : doc[i][dim][id].Incidents # <<>>

\* Some expected ruleset differs from the actual ruleset it is compared with.
DiffersInsideRuleSet ==
    \E i \in 1..Len(expected) :
        /\ firstNamed(actual, expected[i].Name) # 0
        /\ actual[firstNamed(actual, expected[i].Name)] # expected[i]

----------------------------------------------------------------------------
(* C1: comparing a document whose ruleset names are unique with an identical
   copy of itself returns Passed = true and no discrepancy, whatever the
   backend kind. *)
C1_Reflexivity ==
    (Called /\ actual = expected /\ UniqueNames(expected))
        => (Returned /\ result.Passed /\ result.Errors = EmptyBag)

\* Both documents were rewritten in the same way and compared by tackle-hub.
C1_Witness ==
    /\ Returned /\ targetType = "tackle-hub"
    /\ actual = expected /\ UniqueNames(expected)
    /\ edits = 2 /\ Len(expected) = 2

(* C2: with a recognised strategy the comparison never aborts: it returns a
   discrepancy list for every pair of documents, also when an expected
   violation has incidents and the actual violation of the same id has none. *)
C2_NeverAborts == (Called /\ Recognised) => Returned

(* C3: for every backend kind, the empty and the unrecognised ones included,
   the comparison of two documents that differ inside a same-named ruleset
   completes and returns the discrepancy list. Stated for the documents in
   which every violation has an incident, where no recognised kind aborts. *)
C3_EveryKindCompletes ==
    (Called /\ DiffersInsideRuleSet /\ AllHaveIncidents(actual)) => Returned

(* C4: the verdict returned by ValidateFiles is pass exactly when the
   returned discrepancy list is empty. *)
C4_PassIffNoErrors == Returned => (result.Passed <=> result.Errors = EmptyBag)

\* A comparison that returned a failing verdict with discrepancies.
C4_Witness == Returned /\ ~result.Passed /\ result.Errors # EmptyBag

----------------------------------------------------------------------------
\* The path segment ValidateFiles gives to the violations and insights maps.
DimensionPath(dim) == IF dim = "Insights" THEN "insights" ELSE "violations"

\* The pairs <<i, j>>: expected ruleset i is compared with actual ruleset j.
ComparedPairs ==
    {<<i, firstNamed(actual, expected[i].Name)>> :
        i \in {h \in 1..Len(expected) : firstNamed(actual, expected[h].Name) # 0}}

(* C5: with a recognised strategy, each expected ruleset whose name no actual
   ruleset has yields exactly one discrepancy, at path ruleset/<name>, and
   no discrepancy about its contents. *)
C5_MissingRuleSet ==
    (Called /\ Recognised) =>
        \A n \in Names(expected) \ Names(actual) :
            /\ Copies(ErrorsAt(<<"ruleset", n>>)) = NumNamed(expected, n)
            /\ ErrorsUnder(<<n>>) = {}

(* C5, for the comparisons that return. *)
C5_MissingRuleSetWhenReturned == Returned => C5_MissingRuleSet

(* C6: with a recognised strategy, each actual ruleset whose name no expected
   ruleset has yields exactly one discrepancy, at path ruleset/<name>, and
   an actual ruleset whose name expected has yields none. *)
C6_UnexpectedRuleSet ==
    (Called /\ Recognised) =>
        \A n \in Names(actual) :
            Copies(ErrorsAt(<<"ruleset", n>>)) =
                IF n \notin Names(expected) THEN NumNamed(actual, n) ELSE 0

(* C6, for the comparisons that return. *)
C6_UnexpectedRuleSetWhenReturned == Returned => C6_UnexpectedRuleSet

(* C8: with a recognised strategy, for a ruleset on both sides with N expected
   violation (insight) ids, M actual ids and K common ids, at least
   (N-K) + (M-K) discrepancies are emitted under <ruleset>/violations
   (<ruleset>/insights). *)
C8_MapKeyedCompleteness ==
    (Called /\ Recognised) =>
        \A p \in ComparedPairs, dim \in Dimensions :
            LET E == DOMAIN expected[p[1]][dim]
                A == DOMAIN actual[p[2]][dim]
            IN  Copies(ErrorsUnder(<<actual[p[2]].Name, DimensionPath(dim)>>))
                    >= Cardinality(E \ A) + Cardinality(A \ E)

(* C8, for the comparisons that return. *)
C8_MapKeyedCompletenessWhenReturned == Returned => C8_MapKeyedCompleteness

----------------------------------------------------------------------------
DuplicateFree(list) == \A i, j \in 1..Len(list) : list[i] = list[j] => i = j

Elements(list) == {list[i] : i \in 1..Len(list)}

AllTags == UNION {Elements(t) : t \in TagLists}

\* How often the bag holds a discrepancy with the path and the message text.
CopiesOf(bag, path, text) ==
    LET S == {e \in DOMAIN bag : e.Path = path /\ e.Message.text = text}
    IN  IF S = {} THEN 0 ELSE BagCardinality([e \in S |-> bag[e]])

\* The bag holds one missing-tag discrepancy for each tag only in exp, one
\* unexpected-tag discrepancy for each tag only in act, and no other for a
\* tag, at the paths prefix/<tag>.
TagSymmetry(bag, prefix, exp, act) ==
    \A t \in AllTags :
        /\ CopiesOf(bag, prefix \o <<t>>, "Did not find expected tag")
               = IF t \in Elements(exp) \ Elements(act) THEN 1 ELSE 0
        /\ CopiesOf(bag, prefix \o <<t>>, "Unexpected tag found")
               = IF t \in Elements(act) \ Elements(exp) THEN 1 ELSE 0

\* No discrepancy of the bag is about a tag.
NoTagErrors(bag) ==
    \A e \in DOMAIN bag :
        e.Message.text \notin {"Did not find expected tag", "Unexpected tag found"}

\* The compared ruleset pairs whose tag lists are duplicate-free.
TagPairs ==
    {p \in ComparedPairs :
        DuplicateFree(expected[p[1]].Tags) /\ DuplicateFree(actual[p[2]].Tags)}

(* C7 as stated: under each strategy the engine can select, for a ruleset on
   both sides with duplicate-free tag lists, the returned list has exactly one
   missing-tag discrepancy at <ruleset>/tags/<tag> for each tag only in
   expected, exactly one unexpected-tag discrepancy for each tag only in
   actual, and none for a tag on both sides. *)
C7_TagSymmetryEveryStrategy ==
    (Called /\ Recognised /\ UniqueNames(expected)) =>
        \A p \in TagPairs :
            TagSymmetry(result.Errors, <<actual[p[2]].Name, "tags">>,
                        expected[p[1]].Tags, actual[p[2]].Tags)

(* C7 amended: the tag comparison of the strict strategy (kantra, tackle-ui,
   kai-rpc, vscode) yields exactly one missing-tag discrepancy for each tag
   only in expected, exactly one unexpected-tag discrepancy for each tag only
   in actual and none for a tag on both sides, and whenever ValidateFiles
   returns under that strategy the list holds them at <ruleset>/tags/<tag>;
   the tackle-hub strategy compares no tags and reports no tag discrepancy. *)
C7_TagSymmetryStrictOnly ==
    /\ \A p \in TagPairs :
           LET exp == expected[p[1]].Tags
               act == actual[p[2]].Tags
               strict == comparer_compareTags(kantraValidator, exp, act)
               hub == comparer_compareTags(tackleHubValidator, exp, act)
           IN  /\ strict.ok /\ TagSymmetry(strict.errs, <<>>, exp, act)
               /\ hub.ok /\ hub.errs = EmptyBag
    /\ (Returned /\ Strict /\ UniqueNames(expected)) =>
           \A p \in TagPairs :
               TagSymmetry(result.Errors, <<actual[p[2]].Name, "tags">>,
                           expected[p[1]].Tags, actual[p[2]].Tags)
    /\ (Returned /\ Hub) => NoTagErrors(result.Errors)

\* A strict comparison returned one missing and one unexpected tag for a
\* ruleset, and a tag on both sides.
C7_Witness ==
    /\ Returned /\ Strict /\ UniqueNames(expected)
    /\ \E p \in TagPairs :
           /\ Elements(expected[p[1]].Tags) \ Elements(actual[p[2]].Tags) # {}
           /\ Elements(actual[p[2]].Tags) \ Elements(expected[p[1]].Tags) # {}
           /\ \E e \in DOMAIN result.Errors : e.Message.text = "Unexpected tag found"

----------------------------------------------------------------------------
\* The spec's second scenario: the documents of the first scenario, but the
\* actual incident is at line 43.
Scenario2Expected == <<CloudReadiness("cloud-readiness")>>

Scenario2Actual ==
    [Scenario2Expected EXCEPT
        ![1].Violations["session-00001"].Incidents[1].LineNumber = Ptr(43)]

Scenario2 ==
    Called /\ Strict /\ expected = Scenario2Expected /\ actual = Scenario2Actual

SessionPath == <<"cloud-readiness", "violations", "session-00001">>

\* "Did not find expected incident: <uri>:42 failed to match on: line number"
MissingIncidentLine42 ==
    ValidationError(SessionPath, "Did not find expected incident", <<"line number">>,
                    URI_MyServlet, 42)

\* "Unexpected incident found: <uri>:43"
UnexpectedIncidentLine43 ==
    ValidationError(SessionPath, "Unexpected incident found", <<>>, URI_MyServlet, 43)

(* C9 as stated: in the second scenario under the strict strategy the result
   is fail with exactly one discrepancy, at
   cloud-readiness/violations/session-00001, naming the line number. *)
C9_OneLineNumberDiscrepancy ==
    Scenario2 =>
        /\ Returned /\ ~result.Passed
        /\ BagCardinality(result.Errors) = 1
        /\ \A e \in DOMAIN result.Errors :
               e.Path = SessionPath /\ e.Message.str = <<"line number">>

(* C9 amended: in the second scenario under the strict strategy the result is
   fail with exactly two discrepancies, both at
   cloud-readiness/violations/session-00001: the missing expected incident
   (line 42), naming the line number as the field that failed to match, and
   the unexpected actual incident (line 43). *)
C9_TwoDiscrepancies ==
    Scenario2 =>
        /\ Returned /\ ~result.Passed
        /\ result.Errors = SetToBag({MissingIncidentLine42, UnexpectedIncidentLine43})

C9_Witness == Scenario2 /\ targetType = "kantra" /\ Returned

----------------------------------------------------------------------------
\* The incidents of a document.
IncidentsOf(doc) ==
    UNION {Elements(doc[i][dim][id].Incidents) :
              <<i, dim, id>> \in {t \in (1..Len(doc)) \X Dimensions \X RuleIds :
                                     t[3] \in DOMAIN doc[t[1]][t[2]]}}

(* C10 as stated: under the strict strategy an expected incident matches an
   actual incident only if the URIs are equal, the messages are equal, the
   line numbers are equal (a missing one counting as 0) and, when the expected
   variables are non-empty, the variables are equal. *)
C10_MatchRequiresVariables ==
    (Returned /\ Strict) =>
    \A i \in IncidentsOf(expected), ai \in IncidentsOf(actual) :
        baseValidator_incidentsMatch(i, ai).ok =>
            /\ i.URI = ai.URI
            /\ i.Message = ai.Message
            /\ lineNumberOrZero(i.LineNumber) = lineNumberOrZero(ai.LineNumber)
            /\ (i.Variables # {} => i.Variables = ai.Variables)

(* C10 amended: under the strict strategy an expected incident matches an
   actual incident exactly when the URIs are equal, the messages are equal and
   the line numbers are equal (a missing one counting as 0); the variables
   and the code snippet are not compared. *)
C10_MatchIsUriLineMessage ==
    \A i \in IncidentsOf(expected), ai \in IncidentsOf(actual) :
        baseValidator_incidentsMatch(i, ai).ok <=>
            /\ i.URI = ai.URI
            /\ i.Message = ai.Message
            /\ lineNumberOrZero(i.LineNumber) = lineNumberOrZero(ai.LineNumber)

\* A strict comparison passed although the expected incident has variables
\* and the actual incident it matched has others.
C10_Witness ==
    /\ Returned /\ Strict /\ result.Passed
    /\ \E i \in IncidentsOf(expected), ai \in IncidentsOf(actual) :
           /\ baseValidator_incidentsMatch(i, ai).ok
           /\ i.Variables # {} /\ i.Variables # ai.Variables

----------------------------------------------------------------------------
\* The violations and insights compared in detail: <<i, j, dim, id>> when the
\* expected ruleset i is compared with the actual ruleset j and both have the
\* id in the dimension.
ComparedViolations ==
    {<<p[1], p[2], dim, id>> :
        <<p, dim, id>> \in {t \in ComparedPairs \X Dimensions \X RuleIds :
            /\ t[3] \in DOMAIN expected[t[1][1]][t[2]]
            /\ t[3] \in DOMAIN actual[t[1][2]][t[2]]}}

ExpectedViolation(v) == expected[v[1]][v[3]][v[4]]

ActualViolation(v) == actual[v[2]][v[3]][v[4]]

\* The path ValidateFiles gives to the discrepancies of a compared violation.
ViolationPath(v) == <<actual[v[2]].Name, DimensionPath(v[3]), v[4]>>

(* C11: under the strict strategy, when the links (as title+url pairs) or the
   labels of an expected violation and of the actual violation with the same
   id differ as sets, in either direction, the returned list has at least one
   discrepancy for that violation. *)
C11_LinksLabelsBothDirections ==
    (Returned /\ Strict) =>
        \A v \in ComparedViolations :
            (\/ Elements(ExpectedViolation(v).Links) # Elements(ActualViolation(v).Links)
             \/ Elements(ExpectedViolation(v).Labels) # Elements(ActualViolation(v).Labels))
                => Copies(ErrorsAt(ViolationPath(v))) >= 1

(* C11, for the elements present only in expected. *)
C11_ExpectedOnlyReported ==
    (Returned /\ Strict) =>
        \A v \in ComparedViolations :
            (\/ Elements(ExpectedViolation(v).Links) \ Elements(ActualViolation(v).Links) # {}
             \/ Elements(ExpectedViolation(v).Labels) \ Elements(ActualViolation(v).Labels) # {})
                => Copies(ErrorsAt(ViolationPath(v))) >= 1

(* C12: under the strict strategy, when the expected and the actual violation
   with the same id have different categories, one of them possibly having
   none, the returned list has a category discrepancy for that violation. *)
C12_CategoryExactEquality ==
    (Returned /\ Strict) =>
        \A v \in ComparedViolations :
            ExpectedViolation(v).Category # ActualViolation(v).Category
                => \E e \in ErrorsAt(ViolationPath(v)) :
                       e.Message.text = "Did not find expected category"

(* C12, for the violations that have a category on both sides. *)
C12_CategoryWhenBothSet ==
    (Returned /\ Strict) =>
        \A v \in ComparedViolations :
            (/\ ExpectedViolation(v).Category # Nil
             /\ ActualViolation(v).Category # Nil
             /\ ExpectedViolation(v).Category # ActualViolation(v).Category)
                => \E e \in ErrorsAt(ViolationPath(v)) :
                       e.Message.text = "Did not find expected category"

----------------------------------------------------------------------------
\* The sequence s rearranged by the permutation p of its indices.
Permute(s, p) == [n \in 1..Len(s) |-> s[p[n]]]

\* The rearrangements of s other than s itself.
Rearrangements(s) == {Permute(s, p) : p \in Permutations(1..Len(s))} \ {s}

\* The documents obtained from doc by rearranging the incidents of one of its
\* violations or insights.
IncidentsRearranged(doc) ==
    UNION {{[doc EXCEPT ![t[1]][t[2]][t[3]].Incidents = r] :
               r \in Rearrangements(doc[t[1]][t[2]][t[3]].Incidents)} :
           t \in {u \in (1..Len(doc)) \X Dimensions \X RuleIds :
                     u[3] \in DOMAIN doc[u[1]][u[2]]}}

(* C13: for every backend kind, rearranging the incidents of any one actual
   or expected violation changes neither the discrepancies the comparison
   returns nor its verdict (nor whether it returns at all). *)
C13_IncidentOrderInsignificant ==
    Called =>
        /\ \A a \in IncidentsRearranged(actual) :
               ValidateFilesResult(targetType, a, expected) = result
        /\ \A e \in IncidentsRearranged(expected) :
               ValidateFilesResult(targetType, actual, e) = result

\* A failed comparison of a document in which a violation has two different
\* incidents.
C13_Witness ==
    /\ Returned /\ Recognised /\ ~result.Passed
    /\ IncidentsRearranged(actual) # {}

----------------------------------------------------------------------------
\* The match predicate of the strategy selected for the call.
StrategyMatch(i, ai) ==
    IF Hub THEN tackleHubValidator_incidentsMatch(i, ai)
    ELSE baseValidator_incidentsMatch(i, ai).ok

\* The expected incidents of the compared violation v that no actual
\* incident of v matches.
UnmatchedExpected(v) ==
    {i \in Elements(ExpectedViolation(v).Incidents) :
        \A ai \in Elements(ActualViolation(v).Incidents) : ~StrategyMatch(i, ai)}

MissingIncidentReported(v, i) ==
    \E e \in ErrorsAt(ViolationPath(v)) :
        /\ e.Message.text = "Did not find expected incident"
        /\ e.Message.uri = i.URI
        /\ e.Message.line = lineNumberOrZero(i.LineNumber)

(* C14: under every recognised strategy, each expected incident that no
   actual incident of the same-id violation matches yields a missing-incident
   discrepancy for that violation. *)
C14_MissingIncidentReported ==
    (Called /\ Recognised) =>
        \A v \in ComparedViolations :
            \A i \in UnmatchedExpected(v) : MissingIncidentReported(v, i)

(* C14, for the comparisons that return, and under tackle-hub for the
   expected violations that have an effort. *)
C14_MissingIncidentWhenEnforced ==
    (Returned /\ Recognised) =>
        \A v \in ComparedViolations :
            (Strict \/ ExpectedViolation(v).Effort # Nil) =>
                \A i \in UnmatchedExpected(v) : MissingIncidentReported(v, i)

----------------------------------------------------------------------------
\* The spec's fifth scenario: the expected incident is at
\* file:///source/App.java, the actual one at file:///opt/input/source/App.java.
Scenario5Expected ==
    [Scenario2Expected EXCEPT
        ![1].Violations["session-00001"].Incidents[1].URI = URI_SourceApp]

Scenario5Actual ==
    [Scenario2Expected EXCEPT
        ![1].Violations["session-00001"].Incidents[1].URI = URI_OptInputApp]

Scenario5 ==
    Called /\ Hub /\ expected = Scenario5Expected /\ actual = Scenario5Actual

\* The expected path taken relative to /source is contained in the actual path.
RelativeTailContained(i, ai) ==
    /\ ~Rel(SourceRoot, Filename(i.URI)).err
    /\ Contains(Filename(ai.URI), Rel(SourceRoot, Filename(i.URI)).path)

(* C15: under the tackle-hub strategy the fifth scenario passes, and an
   expected incident matches an actual incident with the same message and
   line number whenever the URIs are equal or the expected path taken
   relative to /source is contained in the actual path. *)
C15_HubRelativeUriMatch ==
    /\ Scenario5 => (Returned /\ result.Passed /\ result.Errors = EmptyBag)
    /\ \A i \in IncidentsOf(expected), ai \in IncidentsOf(actual) :
           (/\ i.Message = ai.Message
            /\ i.LineNumber = ai.LineNumber
            /\ (i.URI = ai.URI \/ RelativeTailContained(i, ai)))
               => tackleHubValidator_incidentsMatch(i, ai)

C15_Witness == Scenario5 /\ Returned

----------------------------------------------------------------------------
(* The run pipeline *)

\* runSingleTest has returned a TestResult or was unwound by a panic.
Ran == testResult # NotRun \/ (Called /\ testResult = NotRun /\ ~Returned)

\* runSingleTest reached ValidateFiles, which returned.
RunCompared == testResult.Status \in {"passed", "failed"} /\ Returned

\* FilterRuleSets drops the ruleset.
IsEmptyRuleSet(rs) == FilterRuleSets(<<rs>>) = <<>>

\* The document has rulesets of that name, and all of them are empty.
EmptyIn(doc, n) ==
    /\ n \in Names(doc)
    /\ \A i \in 1..Len(doc) : doc[i].Name = n => IsEmptyRuleSet(doc[i])

(* C16: in the run pipeline a ruleset that is empty (no violations, no
   insights, no tags) in the actual and in the expected document yields no
   discrepancy, with any recognised strategy. *)
C16_EmptyOnBothSidesSilent ==
    (RunCompared /\ Recognised) =>
        \A n \in RuleSetNames :
            (EmptyIn(expected, n) /\ EmptyIn(actual, n)) =>
                (ErrorsAt(<<"ruleset", n>>) = {} /\ ErrorsUnder(<<n>>) = {})

(* C16, what runSingleTest does: the empty rulesets of the actual document
   are removed and the expected document is compared as loaded, so an empty
   ruleset of the actual document alone yields no discrepancy, and one that
   the expected document has is reported as not found. *)
C16_OnlyActualFiltered ==
    (RunCompared /\ Recognised) =>
        \A n \in RuleSetNames :
            /\ (EmptyIn(actual, n) /\ n \notin Names(expected))
                   => ErrorsAt(<<"ruleset", n>>) = {}
            /\ (EmptyIn(actual, n) /\ n \in Names(expected))
                   => Copies(ErrorsAt(<<"ruleset", n>>)) = NumNamed(expected, n)

----------------------------------------------------------------------------
\* ValidateFiles for the two documents after FilterRuleSets, with the backend
\* kind of the call.
FilteredResult ==
    ValidateFilesResult(targetType, FilterRuleSets(actual), FilterRuleSets(expected))

(* C17: for every pair of documents and every strategy, comparing
   FilterRuleSets(actual) with FilterRuleSets(expected) gives the verdict
   that comparing actual with expected gives. *)
C17_FilterKeepsVerdict ==
    (Returned /\ FilteredResult.status = "returned")
        => FilteredResult.Passed = result.Passed

(* C17, amended: with the strict strategy and an actual document whose
   ruleset names are unique, a pair of documents that passes unfiltered
   passes after both are filtered (filtering can turn a failing verdict into
   a passing one, never the reverse). Both conditions are needed: with
   actual = [x empty, x non-empty] and expected = [x empty] the filter
   uncovers an unexpected ruleset, and so it does for tackle-hub, which
   compares no tags, with expected = [x empty] and actual = [x with tags]. *)
C17_FilterKeepsPass ==
    (Returned /\ Strict /\ UniqueNames(actual) /\ result.Passed)
        => (FilteredResult.status = "returned" /\ FilteredResult.Passed)

\* A passing strict comparison of documents that both lose a ruleset to the
\* filter.
C17_Witness ==
    /\ Returned /\ Strict /\ UniqueNames(actual) /\ result.Passed
    /\ Len(FilterRuleSets(actual)) < Len(actual)
    /\ Len(FilterRuleSets(expected)) < Len(expected)
    /\ FilteredResult.Passed

----------------------------------------------------------------------------
\* The incidents of the violations and insights of the actual output.
ActualIncidents ==
    UNION {{actual[i][dim][id].Incidents[n] : n \in 1..Len(actual[i][dim][id].Incidents)} :
              <<i, dim, id>> \in {<<i, dim, id>> \in (1..Len(actual)) \X Dimensions \X RuleIds :
                                     id \in DOMAIN actual[i][dim]}}

\* The incident is a fixed point of its own normalization with the test's
\* directory: a second normalizeIncident returns what the first returned.
NormalizedOnce(inc) ==
    LET once == normalizeIncident(inc, GetTestDir)
        twice == normalizeIncident(once.incident, GetTestDir)
    IN  once.err = NilError => (twice.err = NilError /\ twice.incident = once.incident)

(* C18: path normalization is idempotent: for every incident of the output
   that runSingleTest normalized and every test directory, normalizing the
   result of normalizeIncident again with the same directory returns the
   same URI. *)
C18_NormalizeIdempotent ==
    Ran => \A inc \in ActualIncidents : NormalizedOnce(inc)

(* C18, the URIs for which it does hold: those with one mount prefix at
   most, where no rewriting rule builds a prefix that an earlier rule or the
   same rule would have rewritten. *)
C18_IdempotentOnSingleMount ==
    Ran => \A inc \in ActualIncidents :
               inc.URI # URI_SharedOptInputApp => NormalizedOnce(inc)

----------------------------------------------------------------------------
\* runSingleTest stopped with the error of NormalizeRuleSets.
NormalizationFailed == testResult.ErrorMessage = "failed to normalize paths"

(* C19: normalizing an incident whose URI is empty fails with a
   normalization error, and the normalizer never returns success together
   with an empty path. *)
C19_EmptyUriFails ==
    Ran => \A inc \in ActualIncidents :
               LET normalized == normalizeIncident(inc, GetTestDir)
               IN  /\ inc.URI = <<>> => normalized.err # NilError
                   /\ normalized.err = NilError => normalized.incident.URI # <<>>

(* C19, amended: an incident whose URI is empty is returned unchanged with
   no error; for a URI that is not empty the normalizer never returns
   success together with an empty path; and runSingleTest stops with
   "failed to normalize paths" only for an incident whose URI is not empty
   and is emptied by the rewriting. *)
C19_EmptyUriPassesThrough ==
    Ran => /\ \A inc \in ActualIncidents :
                  LET normalized == normalizeIncident(inc, GetTestDir)
                  IN  /\ inc.URI = <<>> =>
                             (normalized.err = NilError /\ normalized.incident = inc)
                      /\ (inc.URI # <<>> /\ normalized.err = NilError) =>
                             normalized.incident.URI # <<>>
           /\ NormalizationFailed =>
                  \E inc \in ActualIncidents :
                      inc.URI # <<>> /\ normalizeFileName(inc.URI, GetTestDir) = <<>>

\* An output with an incident of empty URI, none of its rulesets filtered
\* out, went through normalization and was compared.
C19_Witness ==
    /\ RunCompared /\ testResult.RuleSetsCount = Len(actual)
    /\ GetTestDir # <<>>
    /\ \E inc \in ActualIncidents : inc.URI = <<>>

----------------------------------------------------------------------------
\* Some incident of a violation (an insight) of a ruleset that the filter
\* keeps fails normalization with the test's directory.
FailingIncident(dim) ==
    \E i \in 1..Len(actual) :
        /\ ~IsEmptyRuleSet(actual[i])
        /\ \E id \in DOMAIN actual[i][dim] :
               \E n \in 1..Len(actual[i][dim][id].Incidents) :
                   normalizeIncident(actual[i][dim][id].Incidents[n], GetTestDir).err
                       # NilError

(* C20: when the normalization of one incident fails, the rest of the output
   is still normalized and compared with the expected document, and the
   normalization error is reported together with the outcome of the
   comparison instead of replacing it. *)
C20_FailureKeepsComparison ==
    (Ran /\ \E dim \in Dimensions : FailingIncident(dim)) =>
        (Called /\ testResult.ErrorMessage # "")

(* C20, what runSingleTest does: a failing incident of a violation stops the
   run with "failed to normalize paths" before ValidateFiles is called, and
   no discrepancy is reported; a failing incident of an insight alone
   removes the insight from the output without any error, and the
   comparison is made. *)
C20_FailureReplacesComparison ==
    Ran => /\ FailingIncident("Violations") =>
                  /\ NormalizationFailed /\ testResult.Status = "failed"
                  /\ ~Called /\ testResult.ValidationErrors = EmptyBag
           /\ (FailingIncident("Insights") /\ ~FailingIncident("Violations")) =>
                  (Called /\ testResult.ErrorMessage = "")

\* A run stopped by the normalization of an output that differs from the
\* expected document in more than the failing incident.
C20_RunStopped ==
    /\ NormalizationFailed /\ FailingIncident("Violations")
    /\ Len(actual) # Len(expected)

\* A run whose insight failed normalization and was compared all the same.
C20_InsightDropped ==
    RunCompared /\ FailingIncident("Insights") /\ ~FailingIncident("Violations")

----------------------------------------------------------------------------
\* The orders in which the iteration of a map can give its keys S.
KeyOrders(S) == {o \in [1..Cardinality(S) -> S] : {o[n] : n \in DOMAIN o} = S}

\* slices.Sorted: the sequence in ascending order.
RECURSIVE SortedSeq(_)
SortedSeq(s) ==
    IF s = <<>> THEN <<>>
    ELSE LET least == CHOOSE n \in 1..Len(s) : \A m \in 1..Len(s) : s[n] <= s[m]
         IN  <<s[least]>> \o SortedSeq(RemoveAt(s, least))

\* The fields on which the actual incidents of the compared violation v fail
\* to match the expected incident i, each candidate giving its first
\* differing field.
FailedFields(v, i) ==
    {baseValidator_incidentsMatch(i, ai).field :
        ai \in Elements(ActualViolation(v).Incidents)}

\* The missing-incident discrepancies of the result res for incident i of v.
MissingIncidentErrors(res, v, i) ==
    {e \in DOMAIN res.Errors :
        /\ e.Path = ViolationPath(v)
        /\ e.Message.text = "Did not find expected incident"
        /\ e.Message.uri = i.URI
        /\ e.Message.line = lineNumberOrZero(i.LineNumber)}

(* C25: under the strict strategy the failing field named in a
   missing-incident discrepancy is a function of the set of fields on which
   the actual candidates failed, the last of them in the order uri, line
   number, code snip, message: it is the same for every order in which the
   map of failed fields is iterated and for every order of the actual
   incidents. *)
C25_FailingFieldDeterministic ==
    (Returned /\ Strict) =>
        \A v \in ComparedViolations :
            \A i \in UnmatchedExpected(v) :
                /\ MissingIncidentErrors(result, v, i) # {}
                /\ \A o \in KeyOrders(FailedFields(v, i)) :
                       \A e \in MissingIncidentErrors(result, v, i) :
                           e.Message.str =
                               <<incidentField_String(
                                     SortedSeq(o)[Cardinality(FailedFields(v, i))])>>
                /\ \A a \in IncidentsRearranged(actual) :
                       MissingIncidentErrors(ValidateFilesResult(targetType, a, expected), v, i)
                           = MissingIncidentErrors(result, v, i)

\* An expected incident whose candidates failed on two different fields.
C25_Witness ==
    /\ Returned /\ Strict
    /\ \E v \in ComparedViolations :
           \E i \in UnmatchedExpected(v) : Cardinality(FailedFields(v, i)) >= 2

----------------------------------------------------------------------------
\* What runSingleTest hands to NormalizeRuleSets, and what it gets back.
FilteredActual == FilterRuleSets(actual)

NormalizedActual == NormalizeRuleSets(FilteredActual, GetTestDir)

\* Every violation (insight) handed to NormalizeRuleSets is in its output.
AllEntriesKept(dim) ==
    \A i \in 1..Len(FilteredActual) :
        DOMAIN NormalizedActual.rulesets[i][dim] = DOMAIN FilteredActual[i][dim]

(* C30: NormalizeRuleSets returns a nil error only if every incident of
   every violation and every insight was normalized successfully and every
   violation and insight of its input is in its output. *)
C30_NilErrorMeansComplete ==
    (Ran /\ NormalizedActual.err = NilError) =>
        /\ \A dim \in Dimensions : ~FailingIncident(dim) /\ AllEntriesKept(dim)

(* C30, for the violations, whose errors NormalizeRuleSets joins: a nil
   error means that no incident of a violation failed and no violation was
   left out. An insight whose incident fails is left out with a nil error. *)
C30_NilErrorMeansViolationsComplete ==
    (Ran /\ NormalizedActual.err = NilError) =>
        (~FailingIncident("Violations") /\ AllEntriesKept("Violations"))

----------------------------------------------------------------------------
\* The expected output is what generate stores for the output the run got.
Generated == expected = FilterRuleSets(actual)

(* C29: if generate stored the output D of the backend as the expected
   output of a test and a run of the test with the same recognised target
   gets the same D, the run reports the test as passed. *)
C29_RoundTripPasses ==
    (Generated /\ Called /\ Recognised) => testResult.Status = "passed"

(* C29, for the outputs that path normalization leaves as they are and whose
   ruleset names are unique: the round trip passes with every target. Any
   other output is compared rewritten against its stored, unrewritten self. *)
C29_RoundTripPassesUnrewritten ==
    (Generated /\ Called /\ UniqueNames(actual)
        /\ NormalizedActual.err = NilError /\ NormalizedActual.rulesets = FilteredActual)
        => testResult.Status = "passed"

\* Round trips of an output with a rewritten path, and of one without.
C29_RoundTripFailed ==
    /\ Generated /\ RunCompared /\ Strict /\ testResult.Status = "failed"
    /\ NormalizedActual.rulesets # FilteredActual

C29_RoundTripPassed ==
    /\ Generated /\ RunCompared /\ testResult.Status = "passed"
    /\ Len(FilteredActual) < Len(actual) /\ edits = MaxEdits

----------------------------------------------------------------------------
(* The run command *)

\* The loop over the test files has ended and the summary was made.
Summarized == summary # <<>>

TheSummary == Deref(summary)

(* C26: after the run loop over any list of test files, the summary has
   Passed + Failed + Skipped = Total = the number of test files, the
   reported list has exactly one entry for every test file, in their order,
   and a test file marked as skipped was never loaded or executed and is
   reported as skipped. *)
C26_SummaryAccountsForEveryTest ==
    Summarized =>
        /\ TheSummary.Passed + TheSummary.Failed + TheSummary.Skipped = TheSummary.Total
        /\ TheSummary.Total = Len(testFiles)
        /\ Len(TheSummary.Tests) = Len(testFiles)
        /\ \A k \in 1..Len(testFiles) :
               /\ TheSummary.Tests[k].Name = k
               /\ isTestSkipped(testFiles[k]) =>
                      (k \notin loaded /\ TheSummary.Tests[k].Status = "skipped")
               /\ ~isTestSkipped(testFiles[k]) =>
                      (k \in loaded /\ TheSummary.Tests[k].Status \in {"passed", "failed"})

\* A summary of two test files, one skipped and one that ended in an error.
C26_Witness ==
    /\ Summarized /\ Len(testFiles) = 2
    /\ TheSummary.Skipped = 1 /\ TheSummary.Failed = 1
    /\ \E k \in 1..2 : TheSummary.Tests[k].ErrorMessage = "failed to load test"

----------------------------------------------------------------------------
\* The process of the run command has ended after the loop and the output of
\* the results.
Exited == Summarized /\ exitStatus # Running

(* C27: the run command ends with a non-zero exit status if and only if at
   least one test was counted as failed, whatever the output format and the
   number of test files. Stated for the runs that print their results to
   stdout, where no write of the results can fail. *)
C27_ExitStatusTellsFailure ==
    (Exited /\ outputFile = "") => (exitStatus # 0 <=> failCount > 0)

(* C27, what RunE does: with the formats json, yaml and junit the exit
   status is 1 when a test was counted as failed, and otherwise 0 unless the
   results could not be written to the output file; with the console format
   it is 0 whatever the tests did. *)
C27_ExitStatusByFormat ==
    Exited =>
        IF outputFormat = "console" THEN exitStatus = 0
        ELSE /\ exitStatus \in {0, 1}
             /\ failCount > 0 => exitStatus = 1
             /\ (failCount = 0 /\ outputFile = "") => exitStatus = 0

\* A console run that counted a failed test and ended with status 0.
C27_ConsoleFailureExitsZero ==
    Exited /\ outputFormat = "console" /\ failCount > 0 /\ exitStatus = 0

----------------------------------------------------------------------------
\* The test files the run has gone through, the analyzer having started.
Executed == {k \in loaded : k <= Len(allResults) /\ testFiles[k].loads /\ testFiles[k].started}

(* C28: with the kantra target, a test whose analyzer process exits with
   the code its definition expects passes the exit-code check and goes on
   to the parsing and validation of the output, also when that code is not
   0; and a test is reported as an exit-code mismatch exactly when the two
   codes differ. *)
C28_ExpectedExitCodeAccepted ==
    \A k \in Executed :
        /\ allResults[k].ErrorMessage = "Exit code mismatch"
               <=> testFiles[k].processExitCode # testFiles[k].expectExitCode
        /\ testFiles[k].processExitCode = testFiles[k].expectExitCode
               => allResults[k].ErrorMessage \notin {"execution failed", "Exit code mismatch"}

(* C28, what the code does: every exit code other than 0 makes Execute
   return an error, so the test is reported as "execution failed" whatever
   its definition expects, and the exit-code check only ever sees 0. *)
C28_NonZeroExitIsExecutionFailure ==
    \A k \in Executed :
        /\ testFiles[k].processExitCode # 0
               <=> allResults[k].ErrorMessage = "execution failed"
        /\ allResults[k].ErrorMessage = "Exit code mismatch"
               <=> (testFiles[k].processExitCode = 0 /\ testFiles[k].expectExitCode # 0)

\* The analyzer exited with the expected code 1 and the test was reported as
\* a failed execution.
C28_ExpectedFailureRejected ==
    \E k \in Executed :
        /\ testFiles[k].processExitCode = 1 /\ testFiles[k].expectExitCode = 1
        /\ allResults[k].ErrorMessage = "execution failed"

----------------------------------------------------------------------------
(* targets/tackle_hub.go: TackleHubTarget.Execute and pollTaskCompletion.
   Time is counted in periods of the ticker of pollTaskCompletion (5 s). *)

\* The longest timeout of a test definition, in periods of the ticker.
MaxTimeout == 2

\* The time is followed until two periods after the latest deadline.
MaxTime == MaxTimeout + 2

\* The task states tackle_hub.go names.
TaskStates ==
    {"Created", "Ready", "Pending", "Postponed", "Running", "Succeeded", "Failed"}

\* Task.Get returned an error instead of a task.
GetError == "(error)"

\* What a query of the task can return: a state of the list, a state outside
\* of it, or an error.
TaskGetResults == TaskStates \cup {"Canceled", GetError}

\* The insights an application can have on the hub.
InsightSamples == {"rule-1", "rule-2"}

\* The steps of Execute before the poll that can fail.
SetupFailures ==
    {"test requires maven settings", "failed to create work directory",
     "failed to create application", "failed to create analysis task",
     "failed to submit task"}

\* The steps of Execute after the tags that can fail.
WriteFailures == {"yaml.Marshal", "failed to create output directory",
                  "failed to write output file"}

\* return nil, err
ReturnError(err) == [err |-> err, OutputFile |-> <<>>]

\* The body of case <-ticker.C: what the loop does with the answer of
\* Task.Get; "continue" polls again, "nil" is the return of success.
pollOutcome_failedIsDone(state) ==
    IF state = GetError THEN "failed to get task status"
    ELSE IF state \in {"Succeeded", "Failed"} THEN "nil"
    ELSE IF state \in {"Running", "Ready", "Created", "Pending", "Postponed"}
         THEN "continue"
    ELSE "unexpected task state"

pollOutcome(state) ==
    IF state = GetError THEN "failed to get task status"
    ELSE IF state = "Succeeded" THEN "nil"
    ELSE IF state = "Failed" THEN "task failed"
    ELSE IF state \in {"Running", "Ready", "Created", "Pending", "Postponed"}
         THEN "continue"
    ELSE "unexpected task state"

\* time.Until(deadline), evaluated at t.
timeUntil_wholeTimeout(t, d) == timeout

timeUntil(t, d) == d - t

\* case <-time.After(time.Until(deadline)) is ready: the timer is made when
\* the select of the iteration begins and fires after the time then left
\* until the deadline (at once when that is not positive).
TimerFired == now >= selectStart + timeUntil(selectStart, deadline)

\* Execute up to the submission of the task, then the first lines of
\* pollTaskCompletion: the deadline and the ticker.
Submit ==
    /\ hubStep = "start"
    /\ \E failure \in SetupFailures \cup {"none"} :
           IF failure = "none"
           THEN /\ hubStep' = "polling"
                /\ deadline' = now + timeout
                /\ selectStart' = now
                /\ UNCHANGED execution
           ELSE /\ hubStep' = "returned"
                /\ execution' = ReturnError(failure)
                /\ UNCHANGED <<deadline, selectStart>>
    /\ UNCHANGED <<now, tickerReady, ctxDone, timeout, polls, taskState, pollErr,
                   hubInsights, gotInsights, docVars, runCmdVars, cleanVars>>

\* A period of the ticker passes while the loop waits in select; the ticker
\* leaves a tick in its channel.
Tick ==
    /\ hubStep = "polling" /\ now < MaxTime
    /\ now' = now + 1
    /\ tickerReady' = TRUE
    /\ UNCHANGED <<hubStep, deadline, selectStart, ctxDone, timeout, polls, taskState,
                   pollErr, hubInsights, gotInsights, execution, docVars,
                   runCmdVars, cleanVars>>

\* The context handed to Execute is cancelled by whoever made it.
Cancel ==
    /\ hubStep = "polling" /\ ~ctxDone
    /\ ctxDone' = TRUE
    /\ UNCHANGED <<hubStep, now, deadline, selectStart, tickerReady, timeout, polls,
                   taskState, pollErr, hubInsights, gotInsights, execution,
                   docVars, runCmdVars, cleanVars>>

\* pollTaskCompletion returns err, and Execute returns "task failed or timed
\* out".
PollFailed(err) ==
    /\ pollErr' = err
    /\ hubStep' = "returned"
    /\ execution' = ReturnError("task failed or timed out")

\* case <-ctx.Done(): return ctx.Err()
CtxDone ==
    /\ hubStep = "polling" /\ ctxDone
    /\ PollFailed("context")
    /\ UNCHANGED <<now, deadline, selectStart, tickerReady, ctxDone, timeout, polls,
                   taskState, hubInsights, gotInsights, docVars, runCmdVars,
                   cleanVars>>

\* case <-time.After(time.Until(deadline)): return "task timeout after ..."
Timeout ==
    /\ hubStep = "polling" /\ TimerFired
    /\ PollFailed("task timeout")
    /\ UNCHANGED <<now, deadline, selectStart, tickerReady, ctxDone, timeout, polls,
                   taskState, hubInsights, gotInsights, docVars, runCmdVars,
                   cleanVars>>

\* case <-ticker.C: the task is queried; the loop goes on, or returns.
Poll ==
    /\ hubStep = "polling" /\ tickerReady
    /\ tickerReady' = FALSE
    /\ polls' = polls + 1
    /\ \E state \in TaskGetResults :
           /\ taskState' = state
           /\ IF pollOutcome(state) = "continue"
              THEN /\ selectStart' = now
                   /\ UNCHANGED <<hubStep, pollErr, execution>>
              ELSE IF pollOutcome(state) = "nil"
              THEN /\ pollErr' = "nil"
                   /\ hubStep' = "insights"
                   /\ UNCHANGED <<selectStart, execution>>
              ELSE /\ PollFailed(pollOutcome(state))
                   /\ UNCHANGED selectStart
    /\ UNCHANGED <<now, deadline, ctxDone, timeout, hubInsights, gotInsights,
                   docVars, runCmdVars, cleanVars>>

\* err = t.client.Client.Get("applications/<id>/analysis/insights", &insights):
\* the error is assigned and not looked at before appTag.List() assigns err
\* again; a failed request leaves insights empty.
GetInsights ==
    /\ hubStep = "insights"
    /\ \E failed \in BOOLEAN :
           gotInsights' = [insights |-> IF failed THEN {} ELSE hubInsights,
                           err |-> failed]
    /\ hubStep' = "tags"
    /\ UNCHANGED <<now, deadline, selectStart, tickerReady, ctxDone, timeout, polls,
                   taskState, pollErr, hubInsights, execution, docVars,
                   runCmdVars, cleanVars>>

\* tags, err := appTag.List(); if err != nil { return nil, err }
ListTags ==
    /\ hubStep = "tags"
    /\ \E failed \in BOOLEAN :
           IF failed
           THEN hubStep' = "returned" /\ execution' = ReturnError("appTag.List")
           ELSE hubStep' = "write" /\ UNCHANGED execution
    /\ UNCHANGED <<now, deadline, selectStart, tickerReady, ctxDone, timeout, polls,
                   taskState, pollErr, hubInsights, gotInsights, docVars,
                   runCmdVars, cleanVars>>

\* The rulesets made of the insights got are marshalled and written to
\* output/output.yaml, and Execute returns the file with a nil error.
WriteOutput ==
    /\ hubStep = "write"
    /\ hubStep' = "returned"
    /\ \E failure \in WriteFailures \cup {"none"} :
           execution' = IF failure = "none"
                        THEN [err |-> "nil", OutputFile |-> Ptr(gotInsights.insights)]
                        ELSE ReturnError(failure)
    /\ UNCHANGED <<now, deadline, selectStart, tickerReady, ctxDone, timeout, polls,
                   taskState, pollErr, hubInsights, gotInsights, docVars,
                   runCmdVars, cleanVars>>

HubInit ==
    /\ DocsIdle /\ RunCmdIdle /\ CleanIdle
    /\ hubStep = "start" /\ now = 0 /\ deadline = 0 /\ selectStart = 0
    /\ tickerReady = FALSE /\ ctxDone = FALSE
    /\ timeout \in 0..MaxTimeout /\ polls = 0
    /\ taskState = "(none)" /\ pollErr = "(polling)"
    /\ hubInsights \in SUBSET InsightSamples
    /\ gotInsights = <<>> /\ execution = <<>>

HubNext ==
    \/ Submit \/ Tick \/ Cancel \/ CtxDone \/ Timeout \/ Poll
    \/ GetInsights \/ ListTags \/ WriteOutput

HubSpec == HubInit /\ [][HubNext]_vars

\* Time passes, and a select with a ready case takes one: once the deadline
\* has passed every select of the loop finds the timer's case ready.
HubFairSpec == HubSpec /\ WF_vars(Tick) /\ WF_vars(Timeout)

----------------------------------------------------------------------------
(* C21 to C23: the hub target *)

\* Execute has returned.
HubReturned == hubStep = "returned"

\* The states of a task after which the loop polls again.
ContinuingStates == {"Running", "Ready", "Created", "Pending", "Postponed"}

\* A step that retrieves results from the hub failed: the wait for the task,
\* the request for the insights, or the request for the tags.
PollingFailed == pollErr \notin {"(polling)", "nil"}
InsightsFailed == gotInsights # <<>> /\ gotInsights.err
TagsFailed == execution # <<>> /\ execution.err = "appTag.List"

(* C21: whenever a step of retrieving the results from the hub fails, the
   request for the application's insights after the task succeeded
   included, Execute returns an error and no output document is written and
   handed to the comparison. *)
C21_RetrievalFailureIsError ==
    (HubReturned /\ (PollingFailed \/ InsightsFailed \/ TagsFailed))
        => (execution.err # "nil" /\ execution.OutputFile = <<>>)

\* C21, as the code has it: a failed wait for the task and a failed request
\* for the tags make Execute return an error without a document; a failed
\* request for the insights does not, and the document then holds no
\* insights at all.
C21_TaskAndTagFailureIsError ==
    /\ (HubReturned /\ (PollingFailed \/ TagsFailed))
           => (execution.err # "nil" /\ execution.OutputFile = <<>>)
    /\ (HubReturned /\ InsightsFailed /\ execution.err = "nil")
           => execution.OutputFile = Ptr({})
    /\ (HubReturned /\ execution.err = "nil" /\ ~InsightsFailed)
           => execution.OutputFile = Ptr(hubInsights)

\* The application has insights, the request for them failed, and Execute
\* returned a document without them and a nil error.
C21_IncompleteDocumentReturned ==
    /\ HubReturned /\ InsightsFailed /\ hubInsights # {}
    /\ execution.err = "nil" /\ execution.OutputFile = Ptr({})

(* C22: pollTaskCompletion returns nil only when the task was seen as
   Succeeded; Created, Ready, Pending, Postponed and Running only make it
   poll again (it then ends by the deadline or the context alone); the first
   Failed, unknown state or error of the query makes it return an error;
   and Execute fetches the insights and writes the document only after nil
   was returned. *)
C22_SuccessOnlyWhenSucceeded ==
    /\ pollErr = "nil" <=> taskState = "Succeeded"
    /\ hubStep = "polling" => taskState \in ContinuingStates \cup {"(none)"}
    /\ taskState \in ContinuingStates
           => pollErr \in {"(polling)", "task timeout", "context"}
    /\ taskState = "Failed" <=> pollErr = "task failed"
    /\ taskState = "Canceled" <=> pollErr = "unexpected task state"
    /\ taskState = GetError <=> pollErr = "failed to get task status"
    /\ gotInsights # <<>> => pollErr = "nil"
    /\ (execution # <<>> /\ execution.OutputFile # <<>>) => pollErr = "nil"
    /\ (HubReturned /\ PollingFailed) => execution = ReturnError("task failed or timed out")

\* The task was seen in a continuing state and then as Succeeded, and the
\* insights were fetched.
C22_Witness ==
    /\ polls >= 2 /\ taskState = "Succeeded" /\ pollErr = "nil"
    /\ gotInsights # <<>>

(* C23: pollTaskCompletion always returns. When every query shows a
   continuing state it returns the timeout error, which it does only once
   the deadline (start + timeout) has passed, or the error of the context,
   which it does only once the context is done. *)
C23_PollTerminates ==
    /\ [](pollErr = "task timeout" => (now >= deadline /\ deadline = timeout))
    /\ [](pollErr = "context" => ctxDone)
    /\ []((pollErr # "(polling)" /\ taskState \in ContinuingStates \cup {"(none)"})
              => pollErr \in {"task timeout", "context"})
    /\ (hubStep = "polling") ~> (hubStep # "polling")

\* The task was queried twice and seen in continuing states only, and the
\* loop returned the timeout error.
C23_Witness ==
    /\ pollErr = "task timeout" /\ polls >= 2 /\ taskState \in ContinuingStates
    /\ hubStep = "returned"

----------------------------------------------------------------------------
(* cli/clean.go: the clean command; targets/executor.go: PrepareWorkDir.
   Names of tests and of directories are sequences of characters. *)

\* The runs of targets followed, and the instants they can happen at.
MaxRuns == 3

LowerCase ==
    {"a", "b", "c", "d", "e", "f", "g", "h", "i", "j", "k", "l", "m", "n",
     "o", "p", "q", "r", "s", "t", "u", "v", "w", "x", "y", "z"}

UpperCase ==
    {"A", "B", "C", "D", "E", "F", "G", "H", "I", "J", "K", "L", "M", "N",
     "O", "P", "Q", "R", "S", "T", "U", "V", "W", "X", "Y", "Z"}

DigitChars == <<"0", "1", "2", "3", "4", "5", "6", "7", "8", "9">>

\* The characters of the names of the model, in the order of their bytes,
\* which is the order sort.Strings compares by.
ByteOrder ==
    <<"-", ".">> \o DigitChars \o
    <<"A", "B", "C", "D", "E", "F", "G", "H", "I", "J", "K", "L", "M", "N",
      "O", "P", "Q", "R", "S", "T", "U", "V", "W", "X", "Y", "Z">> \o
    <<"_">> \o
    <<"a", "b", "c", "d", "e", "f", "g", "h", "i", "j", "k", "l", "m", "n",
      "o", "p", "q", "r", "s", "t", "u", "v", "w", "x", "y", "z">>

ByteRank(ch) == CHOOSE n \in DOMAIN ByteOrder : ByteOrder[n] = ch

\* a < b for strings, as sort.Strings has it.
RECURSIVE StringLess(_, _)
StringLess(a, b) ==
    IF b = <<>> THEN FALSE
    ELSE IF a = <<>> THEN TRUE
    ELSE IF Head(a) # Head(b) THEN ByteRank(Head(a)) < ByteRank(Head(b))
    ELSE StringLess(Tail(a), Tail(b))

\* sort.Strings(runs), for runs without duplicates.
sortStrings(runs) ==
    CHOOSE o \in KeyOrders(runs) :
        \A m, n \in DOMAIN o : m < n => StringLess(o[m], o[n])

\* n in decimal, padded with zeros to width digits.
RECURSIVE Decimal(_, _)
Decimal(n, width) ==
    IF width = 0 THEN <<>>
    ELSE Append(Decimal(n \div 10, width - 1), DigitChars[(n % 10) + 1])

\* The instants of the model, in seconds since 2025-12-04 00:00:00 local
\* time: 09:59:59, then 00:00:00 of the next day, and so on.
InstantSeconds(k) == 35999 + (k - 1) * 50401

\* time.Now().Format("20060102-150405") at instant k.
FormatTimestamp(k) ==
    LET s == InstantSeconds(k)
        ofDay == s % 86400
    IN  Decimal(2025, 4) \o Decimal(12, 2) \o Decimal(4 + (s \div 86400), 2)
        \o <<"-">>
        \o Decimal(ofDay \div 3600, 2) \o Decimal((ofDay % 3600) \div 60, 2)
        \o Decimal(ofDay % 60, 2)

RECURSIVE sanitizeName(_)
sanitizeName(name) ==
    IF name = <<>> THEN <<>>
    ELSE LET ch == Head(name)
         IN  (IF ch \in {" ", "/", "\\"} THEN <<"-">>
              ELSE IF \/ ch \in LowerCase \/ ch \in UpperCase
                      \/ ch \in {DigitChars[n] : n \in DOMAIN DigitChars}
                      \/ ch \in {"-", "_"}
                   THEN <<ch>>
              ELSE <<>>)
             \o sanitizeName(Tail(name))

\* The name of the directory PrepareWorkDir makes under baseDir.
PrepareWorkDirName(testName, k) ==
    sanitizeName(testName) \o <<"-">> \o FormatTimestamp(k)

\* strings.Split(s, sep) for a separator of one character.
RECURSIVE Split(_, _)
Split(s, sep) ==
    IF \A n \in DOMAIN s : s[n] # sep THEN <<s>>
    ELSE LET at == CHOOSE n \in DOMAIN s :
                       s[n] = sep /\ \A m \in 1..(n - 1) : s[m] # sep
         IN  <<SubSeq(s, 1, at - 1)>> \o Split(SubSeq(s, at + 1, Len(s)), sep)

\* strings.Join(parts, sep)
RECURSIVE Join(_, _)
Join(parts, sep) ==
    IF parts = <<>> THEN <<>>
    ELSE IF Len(parts) = 1 THEN parts[1]
    ELSE parts[1] \o sep \o Join(Tail(parts), sep)

extractTestName(dirName) ==
    LET parts == Split(dirName, "-")
    IN  IF Len(parts) < 3 THEN <<>>
        ELSE IF Len(parts[Len(parts)]) # 6 THEN <<>>
        ELSE IF Len(parts[Len(parts) - 1]) # 8 THEN <<>>
        ELSE Join(SubSeq(parts, 1, Len(parts) - 2), <<"-">>)

\* testRuns of cleanOldOutputs: the names of the directories whose test
\* name extractTestName finds, by that test name.
testRunsOf(entries) ==
    LET named == {e.name : e \in {x \in entries :
                                     x.isDir /\ extractTestName(x.name) # <<>>}}
    IN  [testName \in {extractTestName(d) : d \in named}
            |-> {d \in named : extractTestName(d) = testName}]

\* toDelete of cleanOldOutputs: of every test with more than one run, all
\* the runs but the last of the sorted ones.
toDeleteOf(entries) ==
    LET testRuns == testRunsOf(entries)
    IN  UNION {IF Cardinality(testRuns[t]) <= 1 THEN {}
               ELSE LET runs == sortStrings(testRuns[t])
                    IN  {runs[n] : n \in 1..(Len(runs) - 1)}
               : t \in DOMAIN testRuns}

\* The names of the tests run, one of them with a space and one without a
\* letter, digit, hyphen or underscore.
TestNames == {<<"a">>, <<"a", " ", "b">>, <<"#">>}

\* What else can be in .koncur/output: a directory and a file.
OtherEntries ==
    {[name |-> <<"c", "a", "c", "h", "e">>, isDir |-> TRUE],
     [name |-> <<"r", "u", "n", ".", "l", "o", "g">>, isDir |-> FALSE]}

\* The entries PrepareWorkDir has made.
WorkDirs(entries) == entries \ OtherEntries

\* A target runs a test: PrepareWorkDir makes the directory of the run,
\* which exists already when the test has run within the same second.
PrepareWorkDir ==
    /\ Cardinality(WorkDirs(outputBaseDir)) < MaxRuns
    /\ \E testName \in TestNames :
           outputBaseDir' = outputBaseDir \cup
               {[name |-> PrepareWorkDirName(testName, wallClock), isDir |-> TRUE]}
    /\ cleaned' = <<>>
    /\ UNCHANGED <<wallClock, docVars, runCmdVars, hubVars>>

\* Time passes between two runs.
Advance ==
    /\ wallClock < MaxRuns
    /\ wallClock' = wallClock + 1
    /\ UNCHANGED <<outputBaseDir, cleaned, docVars, runCmdVars, hubVars>>

\* koncur clean [--all] [--dry-run]: cleanAllOutputs or cleanOldOutputs. A
\* removal can fail, and what it was to remove then stays.
Clean ==
    /\ \E cleanAll, cleanDryRun \in BOOLEAN :
           LET toDelete == IF cleanAll THEN {e.name : e \in outputBaseDir}
                           ELSE toDeleteOf(outputBaseDir)
           IN  \E failing \in {{}} \cup {{d} : d \in toDelete} :
                   /\ outputBaseDir' =
                          IF cleanDryRun THEN outputBaseDir
                          ELSE {e \in outputBaseDir : e.name \notin toDelete \ failing}
                   /\ cleaned' = [all |-> cleanAll, dryRun |-> cleanDryRun,
                                  failed |-> failing # {},
                                  before |-> outputBaseDir]
    /\ UNCHANGED <<wallClock, docVars, runCmdVars, hubVars>>

CleanInit ==
    /\ DocsIdle /\ RunCmdIdle /\ HubIdle
    /\ outputBaseDir \in SUBSET OtherEntries
    /\ wallClock = 1
    /\ cleaned = <<>>

CleanNext == PrepareWorkDir \/ Advance \/ Clean

CleanSpec == CleanInit /\ [][CleanNext]_vars

----------------------------------------------------------------------------
(* C24: the clean command *)

\* The names the directories of the tests begin with.
SanitizedNames == {sanitizeName(testName) : testName \in TestNames}

\* The run directories of a test among the entries: the directories named
\* <test>-<YYYYMMDD>-<HHMMSS>.
RunDirs(test, entries) ==
    {e \in entries : e.isDir /\ \E k \in 1..MaxRuns :
                         e.name = test \o <<"-">> \o FormatTimestamp(k)}

\* The most recent of the run directories of a test.
LatestRun(test, entries) ==
    LET latest == CHOOSE k \in 1..MaxRuns :
                      /\ [name |-> test \o <<"-">> \o FormatTimestamp(k), isDir |-> TRUE]
                             \in entries
                      /\ \A later \in (k + 1)..MaxRuns :
                             [name |-> test \o <<"-">> \o FormatTimestamp(later),
                              isDir |-> TRUE] \notin entries
    IN  [name |-> test \o <<"-">> \o FormatTimestamp(latest), isDir |-> TRUE]

\* The last command was koncur clean without --all and without --dry-run,
\* and every removal succeeded.
CleanedOld ==
    cleaned # <<>> /\ ~cleaned.all /\ ~cleaned.dryRun /\ ~cleaned.failed

(* C24: after koncur clean without --all and without --dry-run, the
   removals succeeding, of every test that had run directories exactly the
   most recent one remains. *)
C24_OnlyLatestRunRemains ==
    CleanedOld =>
        \A test \in SanitizedNames :
            RunDirs(test, cleaned.before) # {}
                => RunDirs(test, outputBaseDir) = {LatestRun(test, cleaned.before)}

\* C24, as the code has it: so it is for the tests whose directory names
\* begin with a name; the run directories of a test whose name has no letter,
\* digit, hyphen or underscore are named -<YYYYMMDD>-<HHMMSS>, and all of
\* them remain; so does everything that is not a run directory.
C24_OnlyLatestRunRemainsOfNamed ==
    CleanedOld =>
        /\ \A test \in SanitizedNames \ {<<>>} :
               RunDirs(test, cleaned.before) # {}
                   => RunDirs(test, outputBaseDir) = {LatestRun(test, cleaned.before)}
        /\ RunDirs(<<>>, outputBaseDir) = RunDirs(<<>>, cleaned.before)
        /\ outputBaseDir \cap OtherEntries = cleaned.before \cap OtherEntries
        /\ outputBaseDir \subseteq cleaned.before

\* A test with an earlier and a later run was cleaned: the later run is all
\* that remains of it.
C24_OlderRunDeleted ==
    /\ CleanedOld
    /\ \E test \in SanitizedNames \ {<<>>} :
           /\ Cardinality(RunDirs(test, cleaned.before)) >= 2
           /\ RunDirs(test, outputBaseDir) = {LatestRun(test, cleaned.before)}

\* Two runs of the test whose directory names begin with the hyphen are
\* still there after the clean.
C24_UnnamedRunsRemain ==
    /\ CleanedOld
    /\ Cardinality(RunDirs(<<>>, cleaned.before)) >= 2
    /\ RunDirs(<<>>, outputBaseDir) = RunDirs(<<>>, cleaned.before)

=============================================================================
